---------------------------- MODULE Spec2Model ----------------------------
(***************************************************************************)
(* ccm: profile / settings reconciliation and the JSON merge / unmerge     *)
(* engine (src/src/profile.rs, src/src/config.rs).                         *)
(*                                                                         *)
(* The specifications of the module:                                       *)
(*   SpecJson  the pure functions merge_json and remove_json_keys applied  *)
(*             to every pair of bounded JSON values;                       *)
(*   SpecList  the listing of the profiles directory applied to every      *)
(*             bounded set of file names;                                  *)
(*   Spec, SpecStore, SpecProject, SpecSync, SpecMap                       *)
(*             the file-system state machine driven by the ccm commands.   *)
(***************************************************************************)
EXTENDS Integers, Sequences, FiniteSets, TLC

VARIABLES
    jbase,          \* SpecJson: the `base` argument
    joverlay,       \* SpecJson: the `overlay` argument
    jres,           \* SpecJson: the value left in `base` by the last call
    jop,            \* SpecJson: which function was applied ("init" before any)
    dir_entries,    \* SpecList: the file names fs::read_dir finds in profiles/
    listing,        \* SpecList: None, or Some(names) as the last listing gave them
    profiles,       \* profiles/<name>.json: name -> None or Some(content)
    settings,       \* the external settings file: None or Some(content)
    current,        \* the global `current` marker file: None or Some(name)
    local_settings, \* <dir>/.claude/settings.local.json: dir -> None or Some(content)
    projects,       \* projects/<hash>.json: hash -> None or Some([profile, path])
    dirs,           \* the directories that exist, of those ccm creates on demand
    edits,          \* how many times a file was rewritten from outside ccm
    last,           \* the last command run and how it ended
    app,            \* SpecTui: the App of the interactive mode
    tui             \* SpecTui: the event loop: whether it failed, the handler it called

jsonvars == <<jbase, joverlay, jres, jop, dir_entries, listing>>
jvars == <<jsonvars, app, tui>>
fsvars == <<profiles, settings, current, local_settings, projects, dirs>>

(***************************************************************************)
(* serde_json::Value.  A value is a record [t, v]: t is the variant's tag, *)
(* v its payload (0 for Null, the number, the Vec as a sequence, the Map   *)
(* as a function from the keys present to their values).  Map equality is  *)
(* equality of functions (key order plays no part); Vec equality is        *)
(* equality of sequences (order-sensitive).                                *)
(***************************************************************************)
Null == [t |-> "null", v |-> 0]
Num(n) == [t |-> "num", v |-> n]
Arr(s) == [t |-> "arr", v |-> s]
Obj(m) == [t |-> "obj", v |-> m]

IsObj(x) == x.t = "obj"

EmptyMap == << >>
EmptyObj == Obj(EmptyMap)

\* Map::insert(key, value)
MapInsert(m, key, value) ==
    [k \in (DOMAIN m) \cup {key} |-> IF k = key THEN value ELSE m[k]]

\* Map::remove(key)
MapRemove(m, key) ==
    [k \in (DOMAIN m) \ {key} |-> m[k]]

\* The keys the model draws from, in the iteration order of serde_json's Map.
KeyOrder == <<"FOO", "env">>
Keys == {KeyOrder[i] : i \in 1..Len(KeyOrder)}

(***************************************************************************)
(* merge_json (profile.rs 313-334).  The object arm is the `for` loop over *)
(* overlay_map, updating base_map key by key; merge_loop(base_map,         *)
(* overlay_map, i) is the loop from the i-th key on.                       *)
(***************************************************************************)
RECURSIVE merge_json(_, _)
RECURSIVE merge_loop(_, _, _)
RECURSIVE remove_json_keys(_, _)
RECURSIVE remove_loop(_, _, _)

merge_loop(base_map, overlay_map, i) ==
    IF i > Len(KeyOrder) THEN base_map
    ELSE LET key == KeyOrder[i] IN
         IF key \notin DOMAIN overlay_map
         THEN merge_loop(base_map, overlay_map, i + 1)
         ELSE IF key \in DOMAIN base_map
              THEN merge_loop([base_map EXCEPT ![key] = merge_json(@, overlay_map[key])],
                              overlay_map, i + 1)
              ELSE merge_loop(MapInsert(base_map, key, overlay_map[key]),
                              overlay_map, i + 1)

\* A merge that replaces a nested object of the base by the overlay's instead
\* of merging the two.
merge_json_shallow(base, overlay) ==
    IF IsObj(base) /\ IsObj(overlay)
    THEN Obj([k \in (DOMAIN base.v) \cup (DOMAIN overlay.v) |->
                 IF k \in DOMAIN overlay.v THEN overlay.v[k] ELSE base.v[k]])
    ELSE overlay

\* A merge that concatenates two arrays instead of replacing the base array.
merge_json_concat(base, overlay) ==
    IF IsObj(base) /\ IsObj(overlay)
    THEN Obj(merge_loop(base.v, overlay.v, 1))
    ELSE IF base.t = "arr" /\ overlay.t = "arr"
         THEN Arr(base.v \o overlay.v)
         ELSE overlay

\* A merge whose scalar arm resets the base instead of cloning the overlay.
merge_json_reset(base, overlay) ==
    IF IsObj(base) /\ IsObj(overlay)
    THEN Obj(merge_loop(base.v, overlay.v, 1))
    ELSE IF IsObj(overlay) THEN overlay ELSE Null

merge_json(base, overlay) ==
    IF IsObj(base) /\ IsObj(overlay)
    THEN Obj(merge_loop(base.v, overlay.v, 1))
    ELSE overlay

(***************************************************************************)
(* remove_json_keys (profile.rs 670-710).  First pass: keys_to_remove, the *)
(* overlay keys present in base where not both values are objects, are     *)
(* removed.  Second pass: the loop over overlay_map recursing into the     *)
(* keys where both values are objects and dropping those left empty.       *)
(***************************************************************************)
keys_to_remove(base_map, overlay_map) ==
    {key \in DOMAIN overlay_map :
        /\ key \in DOMAIN base_map
        /\ ~(IsObj(base_map[key]) /\ IsObj(overlay_map[key]))}

remove_loop(base_map, overlay_map, i) ==
    IF i > Len(KeyOrder) THEN base_map
    ELSE LET key == KeyOrder[i] IN
         IF /\ key \in DOMAIN overlay_map
            /\ key \in DOMAIN base_map
            /\ IsObj(base_map[key])
            /\ IsObj(overlay_map[key])
         THEN LET base_value == remove_json_keys(base_map[key], overlay_map[key]) IN
              IF base_value.v = EmptyMap
              THEN remove_loop(MapRemove(base_map, key), overlay_map, i + 1)
              ELSE remove_loop([base_map EXCEPT ![key] = base_value],
                               overlay_map, i + 1)
         ELSE remove_loop(base_map, overlay_map, i + 1)

\* An unmerge that keeps the key of a nested object it has emptied.
remove_json_keys_keeps_emptied(base, overlay) ==
    IF IsObj(base) /\ IsObj(overlay)
    THEN Obj([k \in (DOMAIN base.v) \ keys_to_remove(base.v, overlay.v) |->
                 IF k \in DOMAIN overlay.v
                 THEN Obj([j \in (DOMAIN base.v[k].v) \ (DOMAIN overlay.v[k].v)
                              |-> base.v[k].v[j]])
                 ELSE base.v[k]])
    ELSE base

\* An unmerge that removes a matched leaf only when the two values are equal.
remove_json_keys_if_equal(base, overlay) ==
    IF IsObj(base) /\ IsObj(overlay)
    THEN LET pruned == [k \in (DOMAIN base.v) \
                              {key \in keys_to_remove(base.v, overlay.v) :
                                   base.v[key] = overlay.v[key]} |-> base.v[k]]
         IN Obj(remove_loop(pruned, overlay.v, 1))
    ELSE base

\* An unmerge that removes every matched key, nested objects included.
remove_json_keys_shallow(base, overlay) ==
    IF IsObj(base) /\ IsObj(overlay)
    THEN Obj([k \in (DOMAIN base.v) \ (DOMAIN overlay.v) |-> base.v[k]])
    ELSE base

remove_json_keys(base, overlay) ==
    IF IsObj(base) /\ IsObj(overlay)
    THEN LET pruned == [k \in (DOMAIN base.v) \ keys_to_remove(base.v, overlay.v)
                          |-> base.v[k]]
         IN Obj(remove_loop(pruned, overlay.v, 1))
    ELSE base

(***************************************************************************)
(* The JSON values SpecJson draws its inputs from: the leaves, and every   *)
(* object tree over Keys with at most MaxKeys keys in all (counted over    *)
(* every nesting level).                                                   *)
(***************************************************************************)
MaxKeys == 3

Leaves == {Null, Num(1), Arr(<<1, 2>>)}

RECURSIVE Weight(_)
RECURSIVE WeightFrom(_, _)
RECURSIVE JsonVals(_)
RECURSIVE JsonMaps(_, _)

WeightFrom(m, i) ==
    IF i > Len(KeyOrder) THEN 0
    ELSE (IF KeyOrder[i] \in DOMAIN m THEN 1 + Weight(m[KeyOrder[i]]) ELSE 0)
         + WeightFrom(m, i + 1)

Weight(x) == IF IsObj(x) THEN WeightFrom(x.v, 1) ELSE 0

JsonMaps(i, n) ==
    IF i > Len(KeyOrder) THEN {EmptyMap}
    ELSE JsonMaps(i + 1, n) \cup
         (IF n = 0 THEN {}
          ELSE UNION {{MapInsert(m, KeyOrder[i], x) :
                          m \in JsonMaps(i + 1, n - 1 - Weight(x))} :
                      x \in JsonVals(n - 1)})

JsonVals(n) == Leaves \cup {Obj(m) : m \in JsonMaps(1, n)}

JsonInputs == JsonVals(MaxKeys)

(***************************************************************************)
(* Files.  Option<T> is None or Some(x); a file that does not exist is     *)
(* None.  The content of a JSON file is a record [ok, fmt, v]: ok says     *)
(* whether serde_json::from_str accepts the bytes, v is the Value they     *)
(* parse to, and fmt tells the bytes serde_json::to_string_pretty writes   *)
(* for v ("pretty") from any other bytes that parse to the same Value      *)
(* ("other": different white space or key order).  Byte equality of two    *)
(* files is equality of the records; deep JSON equality is equality of v.  *)
(***************************************************************************)
None == << >>
Some(x) == <<x>>

\* Path::exists
exists(file) == file # None

\* fs::read_to_string of a file that exists
read_to_string(file) == file[1]

Text(fmt, value) == [ok |-> TRUE, fmt |-> fmt, v |-> value]

\* Bytes that are not valid JSON.
Corrupt == [ok |-> FALSE, fmt |-> "other", v |-> Null]

\* What a copy that failed midway leaves in its destination: a proper prefix
\* of a JSON object's bytes (or nothing), which is not valid JSON.
Truncated == [ok |-> FALSE, fmt |-> "truncated", v |-> Null]

\* serde_json::to_string_pretty
to_string_pretty(value) == Text("pretty", value)

\* serde_json::from_str: whether it returns Ok, and the Value it returns.
from_str_ok(content) == content.ok
from_str(content) == content.v

\* The profile names and project directories the commands are run with:
\* profiles are added under AddNames; "tmp" is a further name to switch to,
\* rename to or import under.
AddNames == {"work", "play"}
ProfileNames == AddNames \cup {"tmp"}
Dirs == {"/p1", "/p2"}

\* config::hash_path, the name of a directory's mapping file.
hash_path(dir) == IF dir = "/p1" THEN "h1" ELSE "h2"
Hashes == {hash_path(d) : d \in Dirs}

\* The files as one record: what a command reads and what it leaves.
Files ==
    [profiles |-> profiles, settings |-> settings, current |-> current,
     local_settings |-> local_settings, projects |-> projects, dirs |-> dirs]

\* The directories ccm creates on demand (config.rs 9-52, profile.rs 348 and
\* 454): the configuration root with its profiles and projects
\* subdirectories, the directory of the settings file, the .claude directory
\* of a project.
claude_dir == "~/.claude"
project_claude_dir(dir) == IF dir = "/p1" THEN "/p1/.claude" ELSE "/p2/.claude"

\* fs::create_dir_all: the directories named exist afterwards.
create_dir_all(fs, ds) == [fs EXCEPT !.dirs = @ \cup ds]

\* config::ensure_ccm_dir, ensure_profiles_dir, ensure_project_profiles_dir
ensure_ccm_dir(fs) == create_dir_all(fs, {"ccm"})
ensure_profiles_dir(fs) == create_dir_all(fs, {"ccm", "ccm/profiles"})
ensure_project_profiles_dir(fs) == create_dir_all(fs, {"ccm", "ccm/projects"})

(***************************************************************************)
(* prompt_switch_action (profile.rs 39-57): the line read from stdin is    *)
(* trimmed and parsed as a u32; 1, 2 and 3 are returned, anything else is  *)
(* answered with 3.  A line is a sequence of characters.                   *)
(***************************************************************************)
Whitespace == {" ", "\n"}
DigitChars == <<"0", "1", "2", "3", "4", "5", "6", "7", "8", "9">>

RECURSIVE trim_start(_)
RECURSIVE trim_end(_)
RECURSIVE digits_value(_, _)

trim_start(s) ==
    IF s # << >> /\ Head(s) \in Whitespace THEN trim_start(Tail(s)) ELSE s

trim_end(s) ==
    IF s # << >> /\ s[Len(s)] \in Whitespace
    THEN trim_end(SubSeq(s, 1, Len(s) - 1))
    ELSE s

\* str::trim
trim(s) == trim_end(trim_start(s))

IsDigit(c) == \E i \in 1..Len(DigitChars) : DigitChars[i] = c
DigitValue(c) == (CHOOSE i \in 1..Len(DigitChars) : DigitChars[i] = c) - 1

digits_value(s, acc) ==
    IF s = << >> THEN acc
    ELSE digits_value(Tail(s), acc * 10 + DigitValue(Head(s)))

\* The Err of str::parse::<u32>.
ParseErr == -1

\* str::parse::<u32>: an optional '+', then one or more decimal digits (the
\* lines of PromptLines are too short to overflow a u32).
parse_u32(s) ==
    LET body == IF s # << >> /\ Head(s) = "+" THEN Tail(s) ELSE s IN
    IF body = << >> \/ \E i \in 1..Len(body) : ~IsDigit(body[i])
    THEN ParseErr
    ELSE digits_value(body, 0)

\* A prompt that takes an answer it cannot read as 1, 2 or 3 for Proceed.
prompt_switch_action_default_proceed(line) ==
    LET n == parse_u32(trim(line)) IN
    IF n \in 1..3 THEN n ELSE 1

prompt_switch_action(line) ==
    LET n == parse_u32(trim(line)) IN
    IF n \in 1..3 THEN n ELSE 3

\* The lines typed at the prompt.
PromptLines ==
    { <<"1", "\n">>, <<" ", "2", " ", "\n">>, <<"3", "\n">>, <<"4", "\n">>,
      <<"x", "\n">>, <<"\n">>, <<"0", "1", "\n">>, <<"+", "2", "\n">> }

(***************************************************************************)
(* What the commands are given.                                            *)
(***************************************************************************)
DocFoo1 == Obj([k \in {"env"} |-> Obj([j \in {"FOO"} |-> Num(1)])])
DocList12 == Obj([k \in {"FOO"} |-> Arr(<<1, 2>>)])
DocList21 == Obj([k \in {"FOO"} |-> Arr(<<2, 1>>)])

\* The env maps add_profile_interactive builds from the answers.
AddAnswers == {EmptyMap, [j \in {"FOO"} |-> Num(1)]}

\* What the external tool or the user leaves in the settings file.
SettingsInputs ==
    { Text("other", DocFoo1), Text("pretty", DocList12), Text("pretty", DocList21),
      Text("pretty", Arr(<<1, 2>>)), Corrupt }

\* The lines typed at the prompt in SpecProject: one for each choice.
PlainLines == { <<"1", "\n">>, <<"2", "\n">>, <<"3", "\n">> }

\* What the editor leaves in a profile file.
EditInputs == { Text("pretty", DocList21), Text("other", DocList21), Corrupt }

\* What the external tool or the user leaves in a project's
\* settings.local.json.
LocalInputs == { Text("other", DocFoo1), Text("pretty", Arr(<<1, 2>>)), Corrupt }

\* The file operation that fails in a run of a command, if it is reached
\* ("none": every operation succeeds): the read of the answer, the write of
\* the active profile, the open of fs::copy (its directory is made, nothing
\* of the settings file is written yet), fs::copy after it truncated the
\* settings file and before all bytes are written (fs::copy writes into the
\* destination itself), the write of the marker; the write of the project
\* settings, the write of the project mapping.
GlobalFaults == {"none", "prompt", "absorb_write", "copy", "copy_partial", "marker"}
ProjectFaults == {"none", "local_write", "mapping"}

\* For remove: fs::remove_file.  For rename: fs::rename, the write of the
\* marker.
RemoveFaults == {"none", "remove"}
RenameFaults == {"none", "rename", "marker"}

\* For clear: the removal or the write of the project settings, the removal
\* of the project mapping.
ClearFaults == {"none", "local_write", "unmap"}

\* For import: the open of fs::copy (nothing of the profile is written), the
\* write of the marker.  For sync: the open of the profile by fs::write.
ImportFaults == {"none", "copy", "marker"}
SyncFaults == {"none", "write"}

\* How many times files are rewritten from outside ccm.
MaxEdits == 2

(***************************************************************************)
(* What a command returns and prints: how it ended, whether with Ok(()),   *)
(* whether the mismatch prompt was shown and what was chosen at it.        *)
(***************************************************************************)
Report(outcome, ok, prompts, choice) ==
    [outcome |-> outcome, ok |-> ok, prompts |-> prompts, choice |-> choice]

\* The files a command leaves, with its report.
Result(fs, report) == [fs |-> fs, report |-> report]

\* get_current_profile (profile.rs 181-189): the marker holds the name as
\* set_current_profile wrote it; the names of ProfileNames have no
\* surrounding whitespace for the trim to take off.
get_current_profile(fs) == fs.current

\* set_current_profile (profile.rs 201-207)
set_current_profile(fs, name) == [ensure_ccm_dir(fs) EXCEPT !.current = Some(name)]

\* config::get_project_profile_info / get_project_current_profile
get_project_current_profile(fs, dir) ==
    IF exists(fs.projects[hash_path(dir)])
    THEN Some(fs.projects[hash_path(dir)][1].profile)
    ELSE None

\* A mapping kept in one file for all directories: recording it for one
\* directory drops the record of every other.
set_project_profile_single(fs, dir, name) ==
    [ensure_project_profiles_dir(fs) EXCEPT
         !.projects = [h \in Hashes |->
                          IF h = hash_path(dir)
                          THEN Some([profile |-> name, path |-> dir])
                          ELSE None]]

\* config::set_project_profile (config.rs 110-120)
set_project_profile(fs, dir, name) ==
    [ensure_project_profiles_dir(fs) EXCEPT
         !.projects[hash_path(dir)] = Some([profile |-> name, path |-> dir])]

(***************************************************************************)
(* handle_profile_mismatch_check (profile.rs 383-444).  The result holds   *)
(* the files afterwards and, in the report, Ok(true) as "proceed",         *)
(* Ok(false) as "cancel", or the error.                                    *)
(***************************************************************************)
\* A check that compares the bytes of the two files instead of their Values.
handle_profile_mismatch_check_bytes(fs, line, fault) ==
    IF ~exists(fs.current) \/ ~exists(fs.settings)
    THEN Result(fs, Report("proceed", TRUE, 0, 0))
    ELSE LET name == fs.current[1] IN
    IF ~exists(fs.profiles[name]) THEN Result(fs, Report("proceed", TRUE, 0, 0))
    ELSE IF ~from_str_ok(fs.settings[1]) \/ ~from_str_ok(fs.profiles[name][1])
    THEN Result(fs, Report("Corrupt", FALSE, 0, 0))
    ELSE IF fs.settings = fs.profiles[name]
    THEN Result(fs, Report("proceed", TRUE, 0, 0))
    ELSE LET choice == prompt_switch_action(line) IN
         IF choice = 1 THEN Result(fs, Report("proceed", TRUE, 1, 1))
         ELSE IF choice = 2
              THEN Result([fs EXCEPT !.profiles[name] = fs.settings],
                          Report("proceed", TRUE, 1, 2))
              ELSE Result(fs, Report("cancel", TRUE, 1, 3))

\* A check that never finds a difference: the prompt is skipped.
handle_profile_mismatch_check_never(fs, line, fault) ==
    Result(fs, Report("proceed", TRUE, 0, 0))

\* A check whose Cancel arm falls through to the switch.
handle_profile_mismatch_check_no_cancel(fs, line, fault) ==
    IF ~exists(fs.current) \/ ~exists(fs.settings)
    THEN Result(fs, Report("proceed", TRUE, 0, 0))
    ELSE LET name == fs.current[1] IN
    IF ~exists(fs.profiles[name]) THEN Result(fs, Report("proceed", TRUE, 0, 0))
    ELSE IF ~from_str_ok(fs.settings[1]) \/ ~from_str_ok(fs.profiles[name][1])
    THEN Result(fs, Report("Corrupt", FALSE, 0, 0))
    ELSE IF from_str(fs.settings[1]) = from_str(fs.profiles[name][1])
    THEN Result(fs, Report("proceed", TRUE, 0, 0))
    ELSE LET choice == prompt_switch_action(line) IN
         IF choice = 2
         THEN Result([fs EXCEPT !.profiles[name] = fs.settings],
                     Report("proceed", TRUE, 1, 2))
         ELSE Result(fs, Report("proceed", TRUE, 1, choice))

\* A check whose Absorb arm leaves the active profile as it was.
handle_profile_mismatch_check_no_absorb(fs, line, fault) ==
    IF ~exists(fs.current) \/ ~exists(fs.settings)
    THEN Result(fs, Report("proceed", TRUE, 0, 0))
    ELSE LET name == fs.current[1] IN
    IF ~exists(fs.profiles[name]) THEN Result(fs, Report("proceed", TRUE, 0, 0))
    ELSE IF ~from_str_ok(fs.settings[1]) \/ ~from_str_ok(fs.profiles[name][1])
    THEN Result(fs, Report("Corrupt", FALSE, 0, 0))
    ELSE IF from_str(fs.settings[1]) = from_str(fs.profiles[name][1])
    THEN Result(fs, Report("proceed", TRUE, 0, 0))
    ELSE LET choice == prompt_switch_action(line) IN
         IF choice \in {1, 2} THEN Result(fs, Report("proceed", TRUE, 1, choice))
         ELSE Result(fs, Report("cancel", TRUE, 1, 3))

\* A check whose Proceed arm also saves the live settings into the profile.
handle_profile_mismatch_check_always_absorb(fs, line, fault) ==
    IF ~exists(fs.current) \/ ~exists(fs.settings)
    THEN Result(fs, Report("proceed", TRUE, 0, 0))
    ELSE LET name == fs.current[1] IN
    IF ~exists(fs.profiles[name]) THEN Result(fs, Report("proceed", TRUE, 0, 0))
    ELSE IF ~from_str_ok(fs.settings[1]) \/ ~from_str_ok(fs.profiles[name][1])
    THEN Result(fs, Report("Corrupt", FALSE, 0, 0))
    ELSE IF from_str(fs.settings[1]) = from_str(fs.profiles[name][1])
    THEN Result(fs, Report("proceed", TRUE, 0, 0))
    ELSE LET choice == prompt_switch_action(line) IN
         IF choice \in {1, 2}
         THEN Result([fs EXCEPT !.profiles[name] = fs.settings],
                     Report("proceed", TRUE, 1, choice))
         ELSE Result(fs, Report("cancel", TRUE, 1, 3))

handle_profile_mismatch_check(fs, line, fault) ==
    IF ~exists(get_current_profile(fs))
    THEN Result(fs, Report("proceed", TRUE, 0, 0))
    ELSE IF ~exists(fs.settings)
    THEN Result(fs, Report("proceed", TRUE, 0, 0))
    ELSE LET current_profile_name == get_current_profile(fs)[1] IN
    IF ~exists(fs.profiles[current_profile_name])
    THEN Result(fs, Report("proceed", TRUE, 0, 0))
    ELSE LET settings_content == read_to_string(fs.settings)
             current_profile_content ==
                 read_to_string(fs.profiles[current_profile_name])
         IN
    IF ~from_str_ok(settings_content) \/ ~from_str_ok(current_profile_content)
    THEN Result(fs, Report("Corrupt", FALSE, 0, 0))
    ELSE IF from_str(settings_content) = from_str(current_profile_content)
    THEN Result(fs, Report("proceed", TRUE, 0, 0))
    ELSE IF fault = "prompt"
    THEN Result(fs, Report("IoFailure", FALSE, 1, 0))
    ELSE LET choice == prompt_switch_action(line) IN
         IF choice = 1 THEN Result(fs, Report("proceed", TRUE, 1, 1))
         ELSE IF choice = 2
              THEN IF fault = "absorb_write"
                   THEN Result(fs, Report("IoFailure", FALSE, 1, 2))
                   ELSE Result([fs EXCEPT !.profiles[current_profile_name] =
                                              Some(settings_content)],
                               Report("proceed", TRUE, 1, 2))
              ELSE Result(fs, Report("cancel", TRUE, 1, 3))

(***************************************************************************)
(* switch_global_profile (profile.rs 447-472): the mismatch check, then    *)
(* fs::copy of the profile file over the settings file, then the marker.   *)
(***************************************************************************)
\* A switch that writes the profile's document serialised anew instead of
\* copying the file.
switch_global_profile_reserialize(fs, name, line, fault) ==
    LET chk == handle_profile_mismatch_check(fs, line, fault) IN
    IF ~chk.report.ok THEN chk
    ELSE IF chk.report.outcome = "cancel"
    THEN Result(fs, Report("Cancelled", TRUE, chk.report.prompts, chk.report.choice))
    ELSE Result(set_current_profile(
                    [chk.fs EXCEPT !.settings =
                         Some(to_string_pretty(from_str(read_to_string(chk.fs.profiles[name]))))],
                    name),
                Report(IF chk.report.choice = 2 THEN "ProfileUpdatedThenSwitched"
                                                ELSE "Switched",
                       TRUE, chk.report.prompts, chk.report.choice))

\* A switch that writes the marker first and copies the file afterwards.
switch_global_profile_marker_first(fs, name, line, fault) ==
    LET chk == handle_profile_mismatch_check(fs, line, fault)
        rep(outcome, ok) == Report(outcome, ok, chk.report.prompts, chk.report.choice)
    IN
    IF ~chk.report.ok THEN chk
    ELSE IF chk.report.outcome = "cancel" THEN Result(fs, rep("Cancelled", TRUE))
    ELSE IF fault = "marker" THEN Result(chk.fs, rep("IoFailure", FALSE))
    ELSE LET marked == set_current_profile(chk.fs, name) IN
         IF fault = "copy" THEN Result(marked, rep("IoFailure", FALSE))
         ELSE IF fault = "copy_partial"
         THEN Result([marked EXCEPT !.settings = Some(Truncated)], rep("IoFailure", FALSE))
         ELSE Result([marked EXCEPT !.settings = chk.fs.profiles[name]],
                     rep(IF chk.report.choice = 2 THEN "ProfileUpdatedThenSwitched"
                                                  ELSE "Switched", TRUE))

\* A switch whose Cancel still copies the profile over the settings.
switch_global_profile_cancel_copies(fs, name, line, fault) ==
    LET chk == handle_profile_mismatch_check(fs, line, fault) IN
    IF ~chk.report.ok THEN chk
    ELSE IF chk.report.outcome = "cancel"
    THEN Result([fs EXCEPT !.settings = fs.profiles[name]],
                Report("Cancelled", TRUE, chk.report.prompts, chk.report.choice))
    ELSE Result(set_current_profile([chk.fs EXCEPT !.settings = chk.fs.profiles[name]],
                                    name),
                Report(IF chk.report.choice = 2 THEN "ProfileUpdatedThenSwitched"
                                                ELSE "Switched",
                       TRUE, chk.report.prompts, chk.report.choice))

switch_global_profile(fs, name, line, fault) ==
    LET chk == handle_profile_mismatch_check(fs, line, fault)
        rep(outcome, ok) == Report(outcome, ok, chk.report.prompts, chk.report.choice)
    IN
    IF ~chk.report.ok THEN chk
    ELSE IF chk.report.outcome = "cancel" THEN Result(fs, rep("Cancelled", TRUE))
    ELSE LET made == create_dir_all(chk.fs, {claude_dir}) IN
    IF fault = "copy" THEN Result(made, rep("IoFailure", FALSE))
    ELSE IF fault = "copy_partial"
    THEN Result([made EXCEPT !.settings = Some(Truncated)], rep("IoFailure", FALSE))
    ELSE LET copied == [made EXCEPT !.settings = chk.fs.profiles[name]] IN
         IF fault = "marker" THEN Result(copied, rep("IoFailure", FALSE))
         ELSE Result(set_current_profile(copied, name),
                     rep(IF chk.report.choice = 2 THEN "ProfileUpdatedThenSwitched"
                                                  ELSE "Switched", TRUE))

(***************************************************************************)
(* switch_project_profile (profile.rs 342-379): the profile is merged into *)
(* the project's settings.local.json (or written verbatim when there is    *)
(* none), then the project mapping is recorded.                            *)
(***************************************************************************)
\* A project switch that writes the profile's content over the project
\* settings whether or not they exist.
switch_project_profile_overwrite(fs, name, profile_content, profile_value, cwd, fault) ==
    LET written == [fs EXCEPT !.local_settings[cwd] = Some(profile_content)] IN
    IF fault = "local_write" THEN Result(fs, Report("IoFailure", FALSE, 0, 0))
    ELSE IF fault = "mapping" THEN Result(written, Report("IoFailure", FALSE, 0, 0))
    ELSE Result(set_project_profile(written, cwd, name),
                Report("Switched", TRUE, 0, 0))

switch_project_profile(fs, name, profile_content, profile_value, cwd, fault) ==
    LET local == fs.local_settings[cwd]
        made == create_dir_all(fs, {project_claude_dir(cwd)})
    IN
    IF exists(local) /\ ~from_str_ok(read_to_string(local))
    THEN Result(made, Report("Corrupt", FALSE, 0, 0))
    ELSE LET final_content ==
                 IF exists(local)
                 THEN to_string_pretty(
                          merge_json(from_str(read_to_string(local)), profile_value))
                 ELSE profile_content
             written == [made EXCEPT !.local_settings[cwd] = Some(final_content)]
         IN
         IF fault = "local_write" THEN Result(made, Report("IoFailure", FALSE, 0, 0))
         ELSE IF fault = "mapping" THEN Result(written, Report("IoFailure", FALSE, 0, 0))
         ELSE Result(set_project_profile(written, cwd, name),
                     Report("Switched", TRUE, 0, 0))

(***************************************************************************)
(* switch_to_profile (profile.rs 475-491)                                  *)
(***************************************************************************)
\* A switch that does not parse the target's file.
switch_to_profile_unparsed(fs, name, project_mode, cwd, line, fault) ==
    LET p == fs.profiles[name] IN
    IF ~exists(p) THEN Result(fs, Report("NotFound", FALSE, 0, 0))
    ELSE IF project_mode
    THEN switch_project_profile(fs, name, read_to_string(p),
                                from_str(read_to_string(p)), cwd, fault)
    ELSE switch_global_profile(fs, name, line, fault)

\* A switch that runs the mismatch check in the project scope too.
switch_to_profile_checks_both_scopes(fs, name, project_mode, cwd, line, fault) ==
    LET p == fs.profiles[name]
        chk == handle_profile_mismatch_check(fs, line, "none")
    IN
    IF ~exists(p) THEN Result(fs, Report("NotFound", FALSE, 0, 0))
    ELSE IF ~from_str_ok(read_to_string(p))
    THEN Result(fs, Report("Corrupt", FALSE, 0, 0))
    ELSE IF ~project_mode THEN switch_global_profile(fs, name, line, fault)
    ELSE IF ~chk.report.ok THEN chk
    ELSE IF chk.report.outcome = "cancel"
    THEN Result(fs, Report("Cancelled", TRUE, chk.report.prompts, chk.report.choice))
    ELSE switch_project_profile(chk.fs, name, read_to_string(p),
                                from_str(read_to_string(p)), cwd, fault)

\* A switch that looks for the target only after the mismatch check.
switch_to_profile_late_lookup(fs, name, project_mode, cwd, line, fault) ==
    LET p == fs.profiles[name] IN
    IF ~exists(p)
    THEN IF project_mode THEN Result(fs, Report("NotFound", FALSE, 0, 0))
         ELSE LET chk == handle_profile_mismatch_check(fs, line, fault) IN
              Result(chk.fs, Report("NotFound", FALSE, chk.report.prompts,
                                    chk.report.choice))
    ELSE IF ~from_str_ok(read_to_string(p))
    THEN Result(fs, Report("Corrupt", FALSE, 0, 0))
    ELSE IF project_mode
    THEN switch_project_profile(fs, name, read_to_string(p),
                                from_str(read_to_string(p)), cwd, fault)
    ELSE switch_global_profile(fs, name, line, fault)

switch_to_profile(fs, name, project_mode, cwd, line, fault) ==
    LET p == fs.profiles[name] IN
    IF ~exists(p) THEN Result(fs, Report("NotFound", FALSE, 0, 0))
    ELSE IF ~from_str_ok(read_to_string(p))
    THEN Result(fs, Report("Corrupt", FALSE, 0, 0))
    ELSE IF project_mode
    THEN switch_project_profile(fs, name, read_to_string(p),
                                from_str(read_to_string(p)), cwd, fault)
    ELSE switch_global_profile(fs, name, line, fault)

(***************************************************************************)
(* add_profile_interactive (profile.rs 77-178): the answers make the env   *)
(* map; a non-empty map is stored under "env"; the file is (over)written.  *)
(***************************************************************************)
add_profile_interactive(fs, name, env_obj) ==
    LET obj == IF env_obj # EmptyMap
               THEN MapInsert(EmptyMap, "env", Obj(env_obj))
               ELSE EmptyMap
    IN Result([ensure_profiles_dir(fs) EXCEPT
                   !.profiles[name] = Some(to_string_pretty(Obj(obj)))],
              Report("Added", TRUE, 0, 0))

(***************************************************************************)
(* edit_profile (profile.rs 578-616): the editor is run on the profile     *)
(* file and leaves `content` in it.                                        *)
(***************************************************************************)
edit_profile(fs, name, content) ==
    IF ~exists(fs.profiles[name]) THEN Result(fs, Report("NotFound", FALSE, 0, 0))
    ELSE Result([fs EXCEPT !.profiles[name] = Some(content)],
                Report("Edited", TRUE, 0, 0))

(***************************************************************************)
(* list_profiles (profile.rs 215-265): the .json files of the profiles     *)
(* directory sorted by file name, each printed with its mark.              *)
(***************************************************************************)
\* The profile names in the order of their file names.
NameOrder == <<"play", "tmp", "work">>

list_entry(fs, cwd, name) ==
    LET is_global_current == get_current_profile(fs) = Some(name)
        is_project_current == get_project_current_profile(fs, cwd) = Some(name)
    IN [name |-> name,
        mark |-> IF is_global_current /\ is_project_current THEN "(current)"
                 ELSE IF is_project_current THEN "(current project)"
                 ELSE IF is_global_current THEN "(current)"
                 ELSE ""]

list_profiles(fs, cwd) ==
    LET entries == SelectSeq(NameOrder, LAMBDA n : exists(fs.profiles[n])) IN
    [i \in 1..Len(entries) |-> list_entry(fs, cwd, entries[i])]

(***************************************************************************)
(* The listing itself (profile.rs 216-238, tui.rs 66-89), on file names as *)
(* sequences of characters: the entries of the profiles directory are      *)
(* filtered (not hidden, extension json), sorted by file name, and shown   *)
(* by their file stem.                                                     *)
(***************************************************************************)
JsonSuffix == <<".", "j", "s", "o", "n">>
TxtSuffix == <<".", "t", "x", "t">>

\* The position of the last '.' of a file name, 0 when it has none.
LastDot(name) ==
    IF \E i \in 1..Len(name) : name[i] = "."
    THEN CHOOSE i \in 1..Len(name) :
             name[i] = "." /\ \A j \in (i + 1)..Len(name) : name[j] # "."
    ELSE 0

\* Path::extension: what follows the last '.', unless the name has no '.'
\* or only the one it begins with.
extension(name) ==
    IF LastDot(name) <= 1 THEN None
    ELSE Some(SubSeq(name, LastDot(name) + 1, Len(name)))

\* Path::file_stem: what precedes the last '.', the whole name when it has
\* no '.' or only the one it begins with.
file_stem(name) ==
    IF LastDot(name) <= 1 THEN name ELSE SubSeq(name, 1, LastDot(name) - 1)

\* str::starts_with('.') and str::ends_with(".json")
starts_with_dot(name) == name # << >> /\ name[1] = "."
ends_with(name, suffix) ==
    /\ Len(name) >= Len(suffix)
    /\ SubSeq(name, Len(name) - Len(suffix) + 1, Len(name)) = suffix

\* The byte of a character (ASCII).
Code(c) ==
    CASE c = "-" -> 45
      [] c = "." -> 46
      [] c = "a" -> 97
      [] c = "b" -> 98
      [] c = "j" -> 106
      [] c = "n" -> 110
      [] c = "o" -> 111
      [] c = "s" -> 115
      [] c = "t" -> 116
      [] c = "x" -> 120

RECURSIVE os_str_less(_, _)
\* Ord for OsString: the bytes are compared from the first on, a proper
\* prefix is less.
os_str_less(s, t) ==
    IF t = << >> THEN FALSE
    ELSE IF s = << >> THEN TRUE
    ELSE IF Code(Head(s)) # Code(Head(t)) THEN Code(Head(s)) < Code(Head(t))
    ELSE os_str_less(Tail(s), Tail(t))

\* entries.sort_by_key(|e| e.file_name()): the names of a directory are
\* distinct, so the order fs::read_dir gave them in plays no part.
sort_by_key(names) ==
    [i \in 1..Cardinality(names) |->
        CHOOSE x \in names : Cardinality({y \in names : os_str_less(y, x)}) = i - 1]

\* The filter of list_profiles (218-234).
is_listed(name) == ~starts_with_dot(name) /\ extension(name) = Some(<<"j", "s", "o", "n">>)

\* A listing that shows the hidden files too.
listed_names_with_hidden(entries) ==
    LET shown == sort_by_key({e \in entries : extension(e) = Some(<<"j", "s", "o", "n">>)})
    IN [i \in DOMAIN shown |-> file_stem(shown[i])]

\* The names list_profiles prints, in the order it prints them.
listed_names(entries) ==
    LET shown == sort_by_key({e \in entries : is_listed(e)})
    IN [i \in DOMAIN shown |-> file_stem(shown[i])]

\* App::refresh_profiles (tui.rs 66-89): self.profiles
refreshed_names(entries) ==
    LET shown == sort_by_key({e \in entries :
                                  ~starts_with_dot(e) /\ ends_with(e, JsonSuffix)})
    IN [i \in DOMAIN shown |-> file_stem(shown[i])]

\* The profiles directories that are listed: up to MaxFiles files, whose
\* names are a profile name of up to MaxStem characters with the .json
\* suffix or, for the names of one character, the same hidden, with another
\* suffix, with none.
MaxStem == 2
MaxFiles == 3
StemChars == {"-", "a", "b"}
Stems == UNION {[1..n -> StemChars] : n \in 1..MaxStem}
FileNames ==
    {s \o JsonSuffix : s \in Stems}
    \cup {<<".">> \o s \o JsonSuffix : s \in [1..1 -> StemChars]}
    \cup {s \o TxtSuffix : s \in [1..1 -> StemChars]}
    \cup [1..1 -> StemChars]
DirInputs ==
    UNION {{{f[i] : i \in 1..n} : f \in [1..n -> FileNames]} : n \in 0..MaxFiles}

(***************************************************************************)
(* remove_profile (profile.rs 276-310)                                     *)
(***************************************************************************)
\* A removal that checks the global marker only.
remove_profile_global_check_only(fs, name, cwd, fault) ==
    IF get_current_profile(fs) = Some(name)
    THEN Result(fs, Report("InUse", TRUE, 0, 0))
    ELSE IF exists(fs.profiles[name])
    THEN Result([fs EXCEPT !.profiles[name] = None], Report("Removed", TRUE, 0, 0))
    ELSE Result(fs, Report("NotFound", TRUE, 0, 0))

\* A removal that refuses a profile mapped by any project directory.
remove_profile_checks_every_mapping(fs, name, cwd, fault) ==
    IF get_current_profile(fs) = Some(name)
       \/ \E d \in Dirs : get_project_current_profile(fs, d) = Some(name)
    THEN Result(fs, Report("InUse", TRUE, 0, 0))
    ELSE IF exists(fs.profiles[name])
    THEN Result([fs EXCEPT !.profiles[name] = None], Report("Removed", TRUE, 0, 0))
    ELSE Result(fs, Report("NotFound", TRUE, 0, 0))

\* A removal that checks the mapping of the working directory only.
remove_profile_project_check_only(fs, name, cwd, fault) ==
    IF get_project_current_profile(fs, cwd) = Some(name)
    THEN Result(fs, Report("InUse", TRUE, 0, 0))
    ELSE IF exists(fs.profiles[name])
    THEN Result([fs EXCEPT !.profiles[name] = None], Report("Removed", TRUE, 0, 0))
    ELSE Result(fs, Report("NotFound", TRUE, 0, 0))

\* A removal that takes the marker along with the file.
remove_profile_clears_marker(fs, name, cwd, fault) ==
    IF get_current_profile(fs) = Some(name)
       \/ get_project_current_profile(fs, cwd) = Some(name)
    THEN Result(fs, Report("InUse", TRUE, 0, 0))
    ELSE IF exists(fs.profiles[name])
    THEN Result([fs EXCEPT !.profiles[name] = None, !.current = None],
                Report("Removed", TRUE, 0, 0))
    ELSE Result(fs, Report("NotFound", TRUE, 0, 0))

remove_profile(fs, name, cwd, fault) ==
    IF get_current_profile(fs) = Some(name)
    THEN Result(fs, Report("InUse", TRUE, 0, 0))
    ELSE IF get_project_current_profile(fs, cwd) = Some(name)
    THEN Result(fs, Report("InUse", TRUE, 0, 0))
    ELSE IF exists(fs.profiles[name])
    THEN IF fault = "remove" THEN Result(fs, Report("IoFailure", FALSE, 0, 0))
         ELSE Result([fs EXCEPT !.profiles[name] = None],
                     Report("Removed", TRUE, 0, 0))
    ELSE Result(fs, Report("NotFound", TRUE, 0, 0))

(***************************************************************************)
(* rename_profile (profile.rs 539-575).  The report tells the rename of    *)
(* the active profile ("RenamedCurrent"), which also writes the marker,    *)
(* from the rename of another one ("Renamed").                             *)
(***************************************************************************)
\* A rename that leaves the marker alone.
rename_profile_keeps_marker(fs, origin, new, fault) ==
    IF ~exists(fs.profiles[origin]) THEN Result(fs, Report("NotFound", FALSE, 0, 0))
    ELSE IF exists(fs.profiles[new])
    THEN Result(fs, Report("AlreadyExists", FALSE, 0, 0))
    ELSE Result([fs EXCEPT !.profiles[new] = fs.profiles[origin],
                           !.profiles[origin] = None],
                Report(IF get_current_profile(fs) = Some(origin)
                       THEN "RenamedCurrent" ELSE "Renamed", TRUE, 0, 0))

\* A rename of the active profile that removes the marker instead of
\* rewriting it.
rename_profile_drops_marker(fs, origin, new, fault) ==
    IF ~exists(fs.profiles[origin]) THEN Result(fs, Report("NotFound", FALSE, 0, 0))
    ELSE IF exists(fs.profiles[new])
    THEN Result(fs, Report("AlreadyExists", FALSE, 0, 0))
    ELSE LET renamed == [fs EXCEPT !.profiles[new] = fs.profiles[origin],
                                   !.profiles[origin] = None]
         IN IF get_current_profile(fs) = Some(origin)
            THEN Result([renamed EXCEPT !.current = None],
                        Report("RenamedCurrent", TRUE, 0, 0))
            ELSE Result(renamed, Report("Renamed", TRUE, 0, 0))

\* A rename that moves the file back when the marker cannot be written.
rename_profile_rolls_back(fs, origin, new, fault) ==
    IF ~exists(fs.profiles[origin]) THEN Result(fs, Report("NotFound", FALSE, 0, 0))
    ELSE IF exists(fs.profiles[new])
    THEN Result(fs, Report("AlreadyExists", FALSE, 0, 0))
    ELSE LET renamed == [fs EXCEPT !.profiles[new] = fs.profiles[origin],
                                   !.profiles[origin] = None]
         IN
         IF fault = "rename" THEN Result(fs, Report("IoFailure", FALSE, 0, 0))
         ELSE IF get_current_profile(fs) = Some(origin)
         THEN IF fault = "marker" THEN Result(fs, Report("IoFailure", FALSE, 0, 0))
              ELSE Result(set_current_profile(renamed, new),
                          Report("RenamedCurrent", TRUE, 0, 0))
         ELSE Result(renamed, Report("Renamed", TRUE, 0, 0))

\* A rename that overwrites an existing profile of the new name.
rename_profile_overwrites(fs, origin, new, fault) ==
    IF ~exists(fs.profiles[origin]) THEN Result(fs, Report("NotFound", FALSE, 0, 0))
    ELSE LET renamed == [fs EXCEPT !.profiles[new] = fs.profiles[origin],
                                   !.profiles[origin] = None]
         IN IF get_current_profile(fs) = Some(origin)
            THEN Result(set_current_profile(renamed, new),
                        Report("RenamedCurrent", TRUE, 0, 0))
            ELSE Result(renamed, Report("Renamed", TRUE, 0, 0))

rename_profile(fs, origin, new, fault) ==
    IF ~exists(fs.profiles[origin]) THEN Result(fs, Report("NotFound", FALSE, 0, 0))
    ELSE IF exists(fs.profiles[new])
    THEN Result(fs, Report("AlreadyExists", FALSE, 0, 0))
    ELSE LET is_current == get_current_profile(fs) = Some(origin)
             renamed == [fs EXCEPT !.profiles[new] = fs.profiles[origin],
                                   !.profiles[origin] = None]
         IN
         IF fault = "rename" THEN Result(fs, Report("IoFailure", FALSE, 0, 0))
         ELSE IF is_current
         THEN IF fault = "marker" THEN Result(renamed, Report("IoFailure", FALSE, 0, 0))
              ELSE Result(set_current_profile(renamed, new),
                          Report("RenamedCurrent", TRUE, 0, 0))
         ELSE Result(renamed, Report("Renamed", TRUE, 0, 0))

(***************************************************************************)
(* clear_project_profile (profile.rs 713-788), with                        *)
(* config::remove_project_profile (config.rs 123-130).                     *)
(***************************************************************************)
remove_project_profile(fs, dir) == [fs EXCEPT !.projects[hash_path(dir)] = None]

\* A clear that returns without removing the mapping when the mapped profile
\* is missing.
clear_project_profile_keeps_corrupted(fs, cwd, fault) ==
    LET mapped == get_project_current_profile(fs, cwd) IN
    IF ~exists(mapped) THEN Result(fs, Report("NoMapping", TRUE, 0, 0))
    ELSE IF ~exists(fs.profiles[mapped[1]])
    THEN Result(fs, Report("ClearedCorrupted", TRUE, 0, 0))
    ELSE Result(remove_project_profile([fs EXCEPT !.local_settings[cwd] = None], cwd),
                Report("Cleared", TRUE, 0, 0))

\* A clear that makes the directory of the mappings before it looks the
\* mapping up.
clear_project_profile_makes_dir(fs, cwd, fault) ==
    LET made == ensure_project_profiles_dir(fs) IN
    IF ~exists(get_project_current_profile(made, cwd))
    THEN Result(made, Report("NoMapping", TRUE, 0, 0))
    ELSE Result(remove_project_profile(made, cwd), Report("Cleared", TRUE, 0, 0))

\* A clear that deletes the project settings when the mapped profile is
\* missing.
clear_project_profile_deletes_orphan(fs, cwd, fault) ==
    LET mapped == get_project_current_profile(fs, cwd) IN
    IF ~exists(mapped) THEN Result(fs, Report("NoMapping", TRUE, 0, 0))
    ELSE IF fault = "unmap" THEN Result(fs, Report("IoFailure", FALSE, 0, 0))
    ELSE IF ~exists(fs.profiles[mapped[1]])
    THEN Result(remove_project_profile([fs EXCEPT !.local_settings[cwd] = None], cwd),
                Report("ClearedCorrupted", TRUE, 0, 0))
    ELSE Result(remove_project_profile(fs, cwd), Report("Cleared", TRUE, 0, 0))

\* A clear that writes the emptied project settings back instead of deleting
\* the file.
clear_project_profile_writes_empty(fs, cwd, fault) ==
    LET mapped == get_project_current_profile(fs, cwd) IN
    IF ~exists(mapped) THEN Result(fs, Report("NoMapping", TRUE, 0, 0))
    ELSE IF ~exists(fs.profiles[mapped[1]])
    THEN Result(remove_project_profile(fs, cwd), Report("ClearedCorrupted", TRUE, 0, 0))
    ELSE IF ~exists(fs.local_settings[cwd])
    THEN Result(remove_project_profile(fs, cwd), Report("Cleared", TRUE, 0, 0))
    ELSE Result(remove_project_profile(
                    [fs EXCEPT !.local_settings[cwd] =
                         Some(to_string_pretty(remove_json_keys(
                             from_str(read_to_string(fs.local_settings[cwd])),
                             from_str(read_to_string(fs.profiles[mapped[1]])))))],
                    cwd),
                Report("Cleared", TRUE, 0, 0))

clear_project_profile(fs, cwd, fault) ==
    LET mapped == get_project_current_profile(fs, cwd) IN
    IF ~exists(mapped) THEN Result(fs, Report("NoMapping", TRUE, 0, 0))
    ELSE LET project_profile_name == mapped[1]
             profile_file == fs.profiles[project_profile_name]
             local == fs.local_settings[cwd]
         IN
    IF ~exists(profile_file)
    THEN IF fault = "unmap" THEN Result(fs, Report("IoFailure", FALSE, 0, 0))
         ELSE Result(remove_project_profile(fs, cwd),
                     Report("ClearedCorrupted", TRUE, 0, 0))
    ELSE IF exists(local) /\ ~from_str_ok(read_to_string(profile_file))
    THEN Result(fs, Report("Corrupt", FALSE, 0, 0))
    ELSE IF exists(local) /\ ~from_str_ok(read_to_string(local))
    THEN Result(fs, Report("Corrupt", FALSE, 0, 0))
    ELSE LET settings_value ==
                 remove_json_keys(from_str(read_to_string(local)),
                                  from_str(read_to_string(profile_file)))
             touches == exists(local) /\ IsObj(settings_value)
             reduced ==
                 IF ~touches THEN fs
                 ELSE IF settings_value.v = EmptyMap
                 THEN [fs EXCEPT !.local_settings[cwd] = None]
                 ELSE [fs EXCEPT !.local_settings[cwd] =
                                     Some(to_string_pretty(settings_value))]
         IN
         IF touches /\ fault = "local_write"
         THEN Result(fs, Report("IoFailure", FALSE, 0, 0))
         ELSE IF fault = "unmap" THEN Result(reduced, Report("IoFailure", FALSE, 0, 0))
         ELSE Result(remove_project_profile(reduced, cwd),
                     Report("Cleared", TRUE, 0, 0))

(***************************************************************************)
(* import_current_profile (profile.rs 516-536): the settings file is       *)
(* copied to a new profile file, then the marker is set.                   *)
(***************************************************************************)
\* An import that, finding the name taken, makes that profile the active one.
import_current_profile_marks_existing(fs, name, fault) ==
    IF ~exists(fs.settings) THEN Result(fs, Report("NoSettings", FALSE, 0, 0))
    ELSE LET made == ensure_profiles_dir(fs) IN
    IF exists(made.profiles[name])
    THEN Result(set_current_profile(made, name), Report("Imported", TRUE, 0, 0))
    ELSE Result(set_current_profile([made EXCEPT !.profiles[name] = made.settings],
                                    name),
                Report("Imported", TRUE, 0, 0))

\* An import that copies over a profile that exists.
import_current_profile_overwrites(fs, name, fault) ==
    IF ~exists(fs.settings) THEN Result(fs, Report("NoSettings", FALSE, 0, 0))
    ELSE Result(set_current_profile(
                    [ensure_profiles_dir(fs) EXCEPT !.profiles[name] = fs.settings],
                    name),
                Report("Imported", TRUE, 0, 0))

import_current_profile(fs, name, fault) ==
    IF ~exists(fs.settings) THEN Result(fs, Report("NoSettings", FALSE, 0, 0))
    ELSE LET made == ensure_profiles_dir(fs) IN
    IF exists(made.profiles[name])
    THEN Result(made, Report("AlreadyExists", FALSE, 0, 0))
    ELSE IF fault = "copy" THEN Result(made, Report("IoFailure", FALSE, 0, 0))
    ELSE LET copied == [made EXCEPT !.profiles[name] = made.settings] IN
         IF fault = "marker" THEN Result(copied, Report("IoFailure", FALSE, 0, 0))
         ELSE Result(set_current_profile(copied, name),
                     Report("Imported", TRUE, 0, 0))

(***************************************************************************)
(* sync_profile (profile.rs 619-667): the settings file's content is       *)
(* written over the active profile unless the two hold the same Value.     *)
(***************************************************************************)
\* A sync that compares the bytes of the two files.
sync_profile_bytes(fs, fault) ==
    IF ~exists(get_current_profile(fs))
    THEN Result(fs, Report("NoActive", FALSE, 0, 0))
    ELSE IF ~exists(fs.settings) THEN Result(fs, Report("NoSettings", FALSE, 0, 0))
    ELSE LET current_profile == get_current_profile(fs)[1] IN
    IF ~exists(fs.profiles[current_profile])
    THEN Result(fs, Report("NotFound", FALSE, 0, 0))
    ELSE IF ~from_str_ok(read_to_string(fs.settings))
            \/ ~from_str_ok(read_to_string(fs.profiles[current_profile]))
    THEN Result(fs, Report("Corrupt", FALSE, 0, 0))
    ELSE IF fs.settings = fs.profiles[current_profile]
    THEN Result(fs, Report("InSync", TRUE, 0, 0))
    ELSE Result([fs EXCEPT !.profiles[current_profile] = fs.settings],
                Report("Synced", TRUE, 0, 0))

sync_profile(fs, fault) ==
    IF ~exists(get_current_profile(fs))
    THEN Result(fs, Report("NoActive", FALSE, 0, 0))
    ELSE LET current_profile == get_current_profile(fs)[1] IN
    IF ~exists(fs.settings) THEN Result(fs, Report("NoSettings", FALSE, 0, 0))
    ELSE IF ~exists(fs.profiles[current_profile])
    THEN Result(fs, Report("NotFound", FALSE, 0, 0))
    ELSE LET settings_content == read_to_string(fs.settings)
             profile_content == read_to_string(fs.profiles[current_profile])
         IN
    IF ~from_str_ok(settings_content) \/ ~from_str_ok(profile_content)
    THEN Result(fs, Report("Corrupt", FALSE, 0, 0))
    ELSE IF from_str(settings_content) = from_str(profile_content)
    THEN Result(fs, Report("InSync", TRUE, 0, 0))
    ELSE IF fault = "write" THEN Result(fs, Report("IoFailure", FALSE, 0, 0))
    ELSE Result([fs EXCEPT !.profiles[current_profile] = Some(settings_content)],
                Report("Synced", TRUE, 0, 0))

(***************************************************************************)
(* The interactive mode (tui.rs).  `app` is the App struct: profiles (the   *)
(* listed names), current_profile, selected_profile, should_quit,          *)
(* show_popup (None or Some(popup)), input_buffer (the characters typed),  *)
(* message and popup_selection (TRUE for Yes).  The text of a message is   *)
(* kept as its kind, "done" or "failed"; message_timeout is set and        *)
(* cleared together with message and has no field of its own.  The        *)
(* commands a popup runs work on the disk, which other processes write     *)
(* too: a command returns Ok or Err, and a refresh reads whatever the      *)
(* profiles directory and the marker hold at that moment.                  *)
(***************************************************************************)
\* crossterm's KeyCode: the named keys and Char(c).
SpecialKeys == {"Up", "Down", "Left", "Right", "Enter", "Esc", "Backspace", "Tab"}
KeyChars == {"a", "d", "i", "j", "k", "l", "n", "q", "r", "s", "y", "N", "Y"}
Key(code, c) == [code |-> code, c |-> c]
Char(c) == Key("Char", c)
KeyCodes == {Key(s, "") : s \in SpecialKeys} \cup {Char(c) : c \in KeyChars}

\* The texts typed into the input buffer of a popup, with what was typed on
\* the way to them.
InputTexts == { << >>, <<"q">>, <<"j">>, <<"q", "j">> }

\* PopupType
Popup(type, name) == [type |-> type, name |-> name]
AddProfile == Popup("AddProfile", << >>)
ConfirmDelete(name) == Popup("ConfirmDelete", name)
ConfirmSwitch(name) == Popup("ConfirmSwitch", name)
RenameProfile(name) == Popup("RenameProfile", name)
ShowProfile(name) == Popup("ShowProfile", name)

\* The App of App::new before its first refresh (tui.rs 51-61).
NewApp ==
    [profiles |-> << >>, current_profile |-> None, selected_profile |-> 0,
     should_quit |-> FALSE, show_popup |-> None, input_buffer |-> << >>,
     message |-> None, popup_selection |-> TRUE]

\* The event loop before it has run: no handler was called, no error returned.
TuiIdle == [failed |-> FALSE, handler |-> "none"]

\* What a refresh finds on the disk: the file names of the profiles
\* directory, the marker, and the call that fails ("none", "read_dir" for
\* profiles_dir or fs::read_dir, "marker" for get_current_profile).
TuiFileNames ==
    { <<"a">> \o JsonSuffix, <<"a", "-">> \o JsonSuffix, <<"b">> \o JsonSuffix }
HiddenFile == <<".", "a">> \o JsonSuffix
TuiDirInputs ==
    (SUBSET TuiFileNames) \cup { {HiddenFile}, {HiddenFile, <<"b">> \o JsonSuffix} }
TuiMarkerInputs == {None, Some(<<"a">>), Some(<<"a", "-">>), Some(<<"b">>)}
UnreadableDisk == [entries |-> {}, marker |-> None, fault |-> "read_dir"]
DiskInputs ==
    [entries : TuiDirInputs, marker : TuiMarkerInputs, fault : {"none"}]
    \cup [entries : TuiDirInputs, marker : {None}, fault : {"marker"}]
    \cup {UnreadableDisk}

\* What a command run from a popup (add, remove, switch, rename) or the
\* launch of the external tool returns.
CommandResults == {"ok", "err"}

\* The result of a method that returns Result<()>: the App it leaves, and
\* whether it returned Ok.
Returned(a, ok) == [app |-> a, ok |-> ok]

\* An App::refresh_profiles that leaves the selection where it was.
refresh_profiles_unclamped(a, disk) ==
    IF disk.fault = "read_dir" THEN Returned(a, FALSE)
    ELSE IF disk.fault = "marker"
    THEN Returned([a EXCEPT !.profiles = refreshed_names(disk.entries)], FALSE)
    ELSE Returned([a EXCEPT !.profiles = refreshed_names(disk.entries),
                            !.current_profile = disk.marker], TRUE)

\* App::refresh_profiles (tui.rs 66-99)
refresh_profiles(a, disk) ==
    IF disk.fault = "read_dir" THEN Returned(a, FALSE)
    ELSE LET listed == [a EXCEPT !.profiles = refreshed_names(disk.entries)] IN
    IF disk.fault = "marker" THEN Returned(listed, FALSE)
    ELSE LET read == [listed EXCEPT !.current_profile = disk.marker] IN
         IF read.profiles # << >> /\ read.selected_profile >= Len(read.profiles)
         THEN Returned([read EXCEPT !.selected_profile = Len(read.profiles) - 1], TRUE)
         ELSE Returned(read, TRUE)

\* App::select_next (tui.rs 101-105)
select_next(a) ==
    IF a.profiles # << >>
    THEN [a EXCEPT !.selected_profile = (a.selected_profile + 1) % Len(a.profiles)]
    ELSE a

\* An App::select_previous that stops at the first profile.
select_previous_stops(a) ==
    IF a.profiles # << >> /\ a.selected_profile # 0
    THEN [a EXCEPT !.selected_profile = a.selected_profile - 1]
    ELSE a

\* App::select_previous (tui.rs 107-115)
select_previous(a) ==
    IF a.profiles # << >>
    THEN [a EXCEPT !.selected_profile =
              IF a.selected_profile = 0 THEN Len(a.profiles) - 1
              ELSE a.selected_profile - 1]
    ELSE a

\* App::get_selected_profile_name (tui.rs 117-119): Vec::get
get_selected_profile_name(a) ==
    IF a.selected_profile + 1 \in DOMAIN a.profiles
    THEN Some(a.profiles[a.selected_profile + 1])
    ELSE None

\* App::show_message (tui.rs 121-124)
show_message(a, msg) == [a EXCEPT !.message = Some(msg)]

\* App::update_message_timeout (tui.rs 126-133); elapsed says whether a
\* second has passed since the message was shown.
update_message_timeout(a, elapsed) ==
    IF exists(a.message) /\ elapsed THEN [a EXCEPT !.message = None] ELSE a

\* String::pop
pop(s) == IF s = << >> THEN s ELSE SubSeq(s, 1, Len(s) - 1)

\* The `if let Err(e) = command(..) { show_message } else { show_message;
\* refresh_profiles()? }` of the popups.
after_command(a, result, disk) ==
    IF result = "err" THEN Returned(show_message(a, "failed"), TRUE)
    ELSE refresh_profiles(show_message(a, "done"), disk)

\* TuiApp::handle_popup_input (tui.rs 831-954)
handle_popup_input(a, key, popup, result, disk) ==
    IF popup.type \in {"AddProfile", "RenameProfile"}
    THEN IF key.code = "Enter"
         THEN IF a.input_buffer # << >>
              THEN LET ran == after_command(a, result, disk) IN
                   IF ~ran.ok THEN ran
                   ELSE Returned([ran.app EXCEPT !.input_buffer = << >>,
                                                 !.show_popup = None], TRUE)
              ELSE Returned(a, TRUE)
         ELSE IF key.code = "Char"
         THEN Returned([a EXCEPT !.input_buffer = Append(@, key.c)], TRUE)
         ELSE IF key.code = "Backspace"
         THEN Returned([a EXCEPT !.input_buffer = pop(@)], TRUE)
         ELSE IF key.code = "Esc"
         THEN Returned([a EXCEPT !.input_buffer = << >>, !.show_popup = None], TRUE)
         ELSE Returned(a, TRUE)
    ELSE IF popup.type = "ConfirmDelete"
    THEN IF key \in {Char("y"), Char("Y")}
         THEN LET ran == after_command(a, result, disk) IN
              IF ~ran.ok THEN ran
              ELSE Returned([ran.app EXCEPT !.show_popup = None], TRUE)
         ELSE IF key \in {Char("n"), Char("N"), Key("Esc", "")}
         THEN Returned([a EXCEPT !.show_popup = None], TRUE)
         ELSE Returned(a, TRUE)
    ELSE IF popup.type = "ConfirmSwitch"
    THEN IF key.code = "Left" THEN Returned([a EXCEPT !.popup_selection = TRUE], TRUE)
         ELSE IF key.code = "Right"
         THEN Returned([a EXCEPT !.popup_selection = FALSE], TRUE)
         ELSE IF key.code = "Enter"
         THEN LET ran == IF a.popup_selection THEN after_command(a, result, disk)
                         ELSE Returned(a, TRUE)
              IN IF ~ran.ok THEN ran
                 ELSE Returned([ran.app EXCEPT !.show_popup = None,
                                               !.popup_selection = TRUE], TRUE)
         ELSE IF key.code = "Esc"
         THEN Returned([a EXCEPT !.show_popup = None, !.popup_selection = TRUE], TRUE)
         ELSE Returned(a, TRUE)
    ELSE IF popup.type = "ShowProfile"
    THEN IF key.code \in {"Esc", "Enter"}
         THEN Returned([a EXCEPT !.show_popup = None], TRUE)
         ELSE Returned(a, TRUE)
    ELSE Returned([a EXCEPT !.show_popup = None], TRUE)

\* TuiApp::handle_main_input (tui.rs 956-1015)
handle_main_input(a, key, result) ==
    IF key \in {Key("Up", ""), Char("k")} THEN Returned(select_previous(a), TRUE)
    ELSE IF key \in {Key("Down", ""), Char("j")} THEN Returned(select_next(a), TRUE)
    ELSE IF key.code = "Enter"
    THEN LET selected_profile == get_selected_profile_name(a) IN
         IF ~exists(selected_profile) THEN Returned(a, TRUE)
         ELSE IF a.current_profile = selected_profile
         THEN Returned(show_message(a, "done"), TRUE)
         ELSE Returned([a EXCEPT !.popup_selection = TRUE,
                                 !.show_popup = Some(ConfirmSwitch(selected_profile[1]))],
                       TRUE)
    ELSE IF key \in {Char("a"), Char("i")}
    THEN Returned([a EXCEPT !.show_popup = Some(AddProfile), !.input_buffer = << >>], TRUE)
    ELSE IF key = Char("d")
    THEN IF exists(get_selected_profile_name(a))
         THEN Returned([a EXCEPT !.show_popup =
                            Some(ConfirmDelete(get_selected_profile_name(a)[1]))], TRUE)
         ELSE Returned(a, TRUE)
    ELSE IF key = Char("r")
    THEN IF exists(get_selected_profile_name(a))
         THEN Returned([a EXCEPT !.show_popup =
                            Some(RenameProfile(get_selected_profile_name(a)[1])),
                                 !.input_buffer = << >>], TRUE)
         ELSE Returned(a, TRUE)
    ELSE IF key = Char("s")
    THEN IF exists(get_selected_profile_name(a))
         THEN Returned([a EXCEPT !.show_popup =
                            Some(ShowProfile(get_selected_profile_name(a)[1]))], TRUE)
         ELSE Returned(a, TRUE)
    ELSE IF key = Char("l")
    THEN IF result = "err" THEN Returned(show_message(a, "failed"), TRUE)
         ELSE Returned(a, TRUE)
    ELSE IF key = Char("q") THEN Returned([a EXCEPT !.should_quit = TRUE], TRUE)
    ELSE Returned(a, TRUE)

\* What handle_events returns: the App, whether it returned Ok, and the
\* handlers it called.
Handled(r, handler) == [app |-> r.app, ok |-> r.ok, handler |-> handler]

\* A handle_events that goes on to the main handler after the popup's.
handle_events_falls_through(a, key, result, disk) ==
    IF exists(a.show_popup)
    THEN LET shown == handle_popup_input(a, key, a.show_popup[1], result, disk) IN
         IF ~shown.ok THEN Handled(shown, "popup")
         ELSE Handled(handle_main_input(shown.app, key, result), "both")
    ELSE Handled(handle_main_input(a, key, result), "main")

\* TuiApp::handle_events (tui.rs 814-829), for a key event that was read.
handle_events(a, key, result, disk) ==
    IF exists(a.show_popup)
    THEN Handled(handle_popup_input(a, key, a.show_popup[1], result, disk), "popup")
    ELSE Handled(handle_main_input(a, key, result), "main")

(***************************************************************************)
(* The state before any command was run: no file exists.                   *)
(***************************************************************************)
FsInit ==
    /\ profiles = [n \in ProfileNames |-> None]
    /\ settings = None
    /\ current = None
    /\ local_settings = [d \in Dirs |-> None]
    /\ projects = [h \in Hashes |-> None]
    /\ dirs = {}
    /\ edits = 0
    /\ last = [op |-> "none", name |-> "", report |-> Report("", TRUE, 0, 0),
               before |-> "none"]

JsonIdle ==
    /\ jbase = Null
    /\ joverlay = Null
    /\ jres = Null
    /\ jop = "idle"
    /\ dir_entries = {}
    /\ listing = None
    /\ app = NewApp
    /\ tui = TuiIdle

Init == FsInit /\ JsonIdle

\* What handle_profile_mismatch_check finds in the files: no marker, no
\* settings file, no file of the active profile, a file that does not parse,
\* the same bytes, the same Value in different bytes, or different Values.
ActiveVsSettings(fs) ==
    IF ~exists(get_current_profile(fs)) THEN "no_marker"
    ELSE IF ~exists(fs.settings) THEN "no_settings"
    ELSE LET active == fs.profiles[get_current_profile(fs)[1]] IN
    IF ~exists(active) THEN "no_profile"
    ELSE IF ~from_str_ok(read_to_string(fs.settings)) \/ ~from_str_ok(read_to_string(active))
    THEN "corrupt"
    ELSE IF fs.settings = active THEN "same_bytes"
    ELSE IF from_str(read_to_string(fs.settings)) = from_str(read_to_string(active))
    THEN "same_value"
    ELSE "differ"

\* A command has run: the files are what it left; `last` keeps the command,
\* the profile name it was given, its report and what the mismatch check
\* would have found in the files it started from.
Ran(op, arg, result) ==
    /\ profiles' = result.fs.profiles
    /\ settings' = result.fs.settings
    /\ current' = result.fs.current
    /\ local_settings' = result.fs.local_settings
    /\ projects' = result.fs.projects
    /\ dirs' = result.fs.dirs
    /\ last' = [op |-> op, name |-> arg, report |-> result.report,
                 before |-> ActiveVsSettings(Files)]

\* The directory the commands of Spec are run in.
Cwd == "/p1"

\* ccm add <name>
Add ==
    /\ \E name \in AddNames, env_obj \in AddAnswers :
          Ran("add", name, add_profile_interactive(Files, name, env_obj))
    /\ UNCHANGED <<jvars, edits>>

\* ccm edit <name>: a successful edit counts as a rewrite from outside.
Edit ==
    /\ \E name \in ProfileNames, content \in EditInputs :
          LET result == edit_profile(Files, name, content) IN
          /\ result.report.ok => edits < MaxEdits
          /\ edits' = IF result.report.ok THEN edits + 1 ELSE edits
          /\ Ran("edit", name, result)
    /\ UNCHANGED jvars

\* The external tool (or the user) rewrites the settings file, which ccm
\* reads and overwrites but does not own.
External ==
    /\ edits < MaxEdits
    /\ edits' = edits + 1
    /\ \E content \in SettingsInputs :
          Ran("external", "",
              Result([create_dir_all(Files, {claude_dir}) EXCEPT
                          !.settings = Some(content)],
                     Report("Written", TRUE, 0, 0)))
    /\ UNCHANGED jvars

\* The settings file is deleted from outside.
ExternalRemove ==
    /\ edits < MaxEdits
    /\ exists(settings)
    /\ edits' = edits + 1
    /\ Ran("external_remove", "", Result([Files EXCEPT !.settings = None],
                                         Report("Removed", TRUE, 0, 0)))
    /\ UNCHANGED jvars

\* Whether a run of `ccm switch <name>` reads a line from stdin.
ReadsLine(name, fault) ==
    switch_to_profile(Files, name, FALSE, Cwd, << >>, fault).report.prompts = 1

\* ccm switch <name>
SwitchGlobal ==
    /\ \E name \in ProfileNames, fault \in GlobalFaults :
          \E line \in (IF ReadsLine(name, fault) THEN PromptLines ELSE {<< >>}) :
              Ran("switch", name, switch_to_profile(Files, name, FALSE, Cwd, line, fault))
    /\ UNCHANGED <<jvars, edits>>

Next ==
    \/ Add
    \/ Edit
    \/ External
    \/ ExternalRemove
    \/ SwitchGlobal

vars == <<jbase, joverlay, jres, jop, dir_entries, listing, profiles, settings,
          current, local_settings, projects, dirs, edits, last, app, tui>>

Spec == Init /\ [][Next]_vars

(***************************************************************************)
(* SpecStore: the profile store (add, remove, rename) with the switches of *)
(* both scopes.  SpecProject: the project scope (switch -p, clear) with    *)
(* the profiles added, edited and removed.                                 *)
(***************************************************************************)
\* ccm switch <name>, every file operation succeeding.
SwitchGlobalPlain ==
    /\ \E name \in ProfileNames :
          \E line \in (IF ReadsLine(name, "none") THEN PlainLines ELSE {<< >>}) :
              Ran("switch", name, switch_to_profile(Files, name, FALSE, Cwd, line, "none"))
    /\ UNCHANGED <<jvars, edits>>

\* ccm switch -p <name>, run in the directory Cwd
SwitchProject ==
    /\ \E name \in ProfileNames, fault \in ProjectFaults :
          Ran("switch_project", name,
              switch_to_profile(Files, name, TRUE, Cwd, << >>, fault))
    /\ UNCHANGED <<jvars, edits>>

\* ccm clear, run in the directory Cwd
ClearProject ==
    /\ \E fault \in ClearFaults :
          Ran("clear", "", clear_project_profile(Files, Cwd, fault))
    /\ UNCHANGED <<jvars, edits>>

\* ccm remove <name>, run in either directory: Cwd, or the one no project
\* command was run in.
Remove ==
    /\ \E name \in ProfileNames, cwd \in Dirs, fault \in RemoveFaults :
          Ran("remove", name, remove_profile(Files, name, cwd, fault))
    /\ UNCHANGED <<jvars, edits>>

\* ccm rename <origin> <new>
Rename ==
    /\ \E origin \in ProfileNames, new \in ProfileNames, fault \in RenameFaults :
          Ran("rename", origin, rename_profile(Files, origin, new, fault))
    /\ UNCHANGED <<jvars, edits>>

NextStore ==
    \/ Add
    \/ SwitchGlobalPlain
    \/ SwitchProject
    \/ Remove
    \/ Rename

SpecStore == Init /\ [][NextStore]_vars

\* The external tool (or the user) rewrites the project settings of Cwd,
\* which ccm merges into and subtracts from but does not own.
ExternalLocal ==
    /\ edits < MaxEdits
    /\ edits' = edits + 1
    /\ \E content \in LocalInputs :
          Ran("external_local", "",
              Result([create_dir_all(Files, {project_claude_dir(Cwd)}) EXCEPT
                          !.local_settings[Cwd] = Some(content)],
                     Report("Written", TRUE, 0, 0)))
    /\ UNCHANGED jvars

NextProject ==
    \/ Add
    \/ Edit
    \/ ExternalLocal
    \/ SwitchProject
    \/ ClearProject
    \/ Remove

SpecProject == Init /\ [][NextProject]_vars

(***************************************************************************)
(* SpecSync: the global scope with import and sync: the settings file is   *)
(* rewritten from outside, taken in as a profile, written back over the    *)
(* active profile.                                                         *)
(***************************************************************************)
\* ccm import <name>
Import ==
    /\ \E name \in ProfileNames, fault \in ImportFaults :
          Ran("import", name, import_current_profile(Files, name, fault))
    /\ UNCHANGED <<jvars, edits>>

\* ccm sync
Sync ==
    /\ \E fault \in SyncFaults :
          Ran("sync", "", sync_profile(Files, fault))
    /\ UNCHANGED <<jvars, edits>>

NextSync ==
    \/ Add
    \/ External
    \/ ExternalRemove
    \/ SwitchGlobalPlain
    \/ Import
    \/ Sync

SpecSync == Init /\ [][NextSync]_vars

(***************************************************************************)
(* SpecList: the directory is drawn in the initial state, each action      *)
(* lists it.                                                               *)
(***************************************************************************)
InitList ==
    /\ dir_entries \in DirInputs
    /\ listing = None
    /\ app = NewApp
    /\ tui = TuiIdle
    /\ jbase = Null
    /\ joverlay = Null
    /\ jres = Null
    /\ jop = "init"
    /\ FsInit

\* ccm list
ListProfiles ==
    /\ jop = "init"
    /\ listing' = Some(listed_names(dir_entries))
    /\ jop' = "list"
    /\ UNCHANGED <<jbase, joverlay, jres, dir_entries, fsvars, edits, last, app, tui>>

\* App::refresh_profiles
RefreshProfiles ==
    /\ jop = "init"
    /\ listing' = Some(refreshed_names(dir_entries))
    /\ jop' = "refresh"
    /\ UNCHANGED <<jbase, joverlay, jres, dir_entries, fsvars, edits, last, app, tui>>

NextList ==
    \/ ListProfiles
    \/ RefreshProfiles

SpecList == InitList /\ [][NextList]_vars

(***************************************************************************)
(* SpecMap: the project scope in both directories: the commands that write *)
(* or use a mapping (switch -p, clear) and those that take a mapped        *)
(* profile away (remove, rename), run in either directory.                 *)
(***************************************************************************)
\* ccm switch -p <name>, run in either directory
SwitchProjectIn ==
    /\ \E name \in ProfileNames, cwd \in Dirs, fault \in ProjectFaults :
          Ran("switch_project", name,
              switch_to_profile(Files, name, TRUE, cwd, << >>, fault))
    /\ UNCHANGED <<jvars, edits>>

\* ccm clear, run in either directory
ClearProjectIn ==
    /\ \E cwd \in Dirs, fault \in ClearFaults :
          Ran("clear", "", clear_project_profile(Files, cwd, fault))
    /\ UNCHANGED <<jvars, edits>>

NextMap ==
    \/ Add
    \/ SwitchProjectIn
    \/ ClearProjectIn
    \/ Remove
    \/ Rename

SpecMap == Init /\ [][NextMap]_vars

(***************************************************************************)
(* SpecPlain: every command that writes the store, the marker or a         *)
(* mapping, with every file operation succeeding and no file touched from  *)
(* outside.                                                                *)
(***************************************************************************)
\* ccm import <name>
ImportPlain ==
    /\ \E name \in ProfileNames :
          Ran("import", name, import_current_profile(Files, name, "none"))
    /\ UNCHANGED <<jvars, edits>>

\* ccm sync
SyncPlain ==
    /\ Ran("sync", "", sync_profile(Files, "none"))
    /\ UNCHANGED <<jvars, edits>>

\* ccm remove <name>, run in either directory
RemovePlain ==
    /\ \E name \in ProfileNames, cwd \in Dirs :
          Ran("remove", name, remove_profile(Files, name, cwd, "none"))
    /\ UNCHANGED <<jvars, edits>>

\* ccm rename <origin> <new>
RenamePlain ==
    /\ \E origin \in ProfileNames, new \in ProfileNames :
          Ran("rename", origin, rename_profile(Files, origin, new, "none"))
    /\ UNCHANGED <<jvars, edits>>

\* ccm switch -p <name>, run in the directory Cwd
SwitchProjectPlain ==
    /\ \E name \in ProfileNames :
          Ran("switch_project", name,
              switch_to_profile(Files, name, TRUE, Cwd, << >>, "none"))
    /\ UNCHANGED <<jvars, edits>>

\* ccm clear, run in the directory Cwd
ClearProjectPlain ==
    /\ Ran("clear", "", clear_project_profile(Files, Cwd, "none"))
    /\ UNCHANGED <<jvars, edits>>

NextPlain ==
    \/ Add
    \/ ImportPlain
    \/ RemovePlain
    \/ RenamePlain
    \/ SwitchGlobalPlain
    \/ SwitchProjectPlain
    \/ SyncPlain
    \/ ClearProjectPlain

SpecPlain == Init /\ [][NextPlain]_vars

(***************************************************************************)
(* SpecTui: the event loop of the interactive mode (TuiApp::run, tui.rs    *)
(* 152-166): App::new, then for every event handle_events and              *)
(* update_message_timeout until should_quit is set or handle_events        *)
(* returns an error.                                                       *)
(***************************************************************************)
\* Whether handle_events, given this key and this result of the command it
\* may run, calls refresh_profiles.
Refreshes(key, result) == ~handle_events(app, key, result, UnreadableDisk).ok

\* App::new returned Ok: the first refresh has read the disk.
InitTui ==
    /\ FsInit
    /\ jbase = Null
    /\ joverlay = Null
    /\ jres = Null
    /\ jop = "idle"
    /\ dir_entries = {}
    /\ listing = None
    /\ \E disk \in DiskInputs :
          /\ disk.fault = "none"
          /\ app = refresh_profiles(NewApp, disk).app
    /\ tui = TuiIdle

\* One turn of the loop in which event::read gave a key.
KeyEvent ==
    /\ ~tui.failed
    /\ ~app.should_quit
    /\ \E key \in KeyCodes, result \in CommandResults, elapsed \in BOOLEAN :
          \E disk \in (IF Refreshes(key, result) THEN DiskInputs ELSE {UnreadableDisk}) :
              LET r == handle_events(app, key, result, disk) IN
              /\ r.app.input_buffer \in InputTexts
              /\ app' = IF r.ok THEN update_message_timeout(r.app, elapsed) ELSE r.app
              /\ tui' = [failed |-> ~r.ok, handler |-> r.handler]
    /\ UNCHANGED <<jsonvars, fsvars, edits, last>>

\* One turn of the loop in which event::poll timed out, or the event was not
\* a key.
NoKeyEvent ==
    /\ ~tui.failed
    /\ ~app.should_quit
    /\ \E elapsed \in BOOLEAN : app' = update_message_timeout(app, elapsed)
    /\ UNCHANGED <<jsonvars, fsvars, edits, last, tui>>

NextTui ==
    \/ KeyEvent
    \/ NoKeyEvent

SpecTui == InitTui /\ [][NextTui]_vars

(***************************************************************************)
(* SpecJson: the inputs are drawn in the initial state, each action        *)
(* applies one function to them.                                           *)
(***************************************************************************)
InitJson ==
    /\ jbase \in JsonInputs
    /\ joverlay \in JsonInputs
    /\ jres = Null
    /\ jop = "init"
    /\ dir_entries = {}
    /\ listing = None
    /\ app = NewApp
    /\ tui = TuiIdle
    /\ FsInit

\* merge_json(&mut base, &overlay)
ApplyMerge ==
    /\ jop = "init"
    /\ jres' = merge_json(jbase, joverlay)
    /\ jop' = "merge"
    /\ UNCHANGED <<jbase, joverlay, dir_entries, listing, fsvars, edits, last, app, tui>>

\* remove_json_keys(&mut base, &overlay)
ApplyRemove ==
    /\ jop = "init"
    /\ jres' = remove_json_keys(jbase, joverlay)
    /\ jop' = "remove"
    /\ UNCHANGED <<jbase, joverlay, dir_entries, listing, fsvars, edits, last, app, tui>>

\* merge_json(&mut base, &overlay) followed by remove_json_keys(&mut base, &overlay)
ApplyMergeRemove ==
    /\ jop = "init"
    /\ jres' = remove_json_keys(merge_json(jbase, joverlay), joverlay)
    /\ jop' = "merge_remove"
    /\ UNCHANGED <<jbase, joverlay, dir_entries, listing, fsvars, edits, last, app, tui>>

NextJson ==
    \/ ApplyMerge
    \/ ApplyRemove
    \/ ApplyMergeRemove

SpecJson == InitJson /\ [][NextJson]_vars

(***************************************************************************)
(* Properties of the merge / unmerge engine (checked under SpecJson).      *)
(***************************************************************************)
RECURSIVE RefMerge(_, _)
RECURSIVE RefRemove(_, _)
RECURSIVE NoLeafOf(_, _)
RECURSIVE RestOf(_, _)
RECURSIVE ObjScalarOnly(_)

\* The reference merge of the specification, key by key.
RefMerge(base, overlay) ==
    IF IsObj(base) /\ IsObj(overlay)
    THEN Obj([k \in (DOMAIN base.v) \cup (DOMAIN overlay.v) |->
                IF k \in DOMAIN overlay.v
                THEN IF k \in DOMAIN base.v
                     THEN RefMerge(base.v[k], overlay.v[k])
                     ELSE overlay.v[k]
                ELSE base.v[k]])
    ELSE overlay

\* C1: for all JSON values base and overlay, merge_json(base, overlay) is the
\* reference merge: on two objects every overlay key k holds
\* merge(base[k], overlay[k]) when k is in base and overlay[k] otherwise, the
\* keys only in base are kept; when either side is not an object the result
\* is the overlay wholesale (arrays are replaced, never concatenated).
C1_MergeIsReferenceMerge ==
    jop = "merge" => jres = RefMerge(jbase, joverlay)

\* A merge of two objects that recursed into a nested object and replaced an
\* array by an array.
C1_Witness ==
    /\ jop = "merge"
    /\ IsObj(jbase) /\ IsObj(joverlay)
    /\ \E k \in DOMAIN jbase.v \cap DOMAIN joverlay.v :
          /\ IsObj(jbase.v[k]) /\ IsObj(joverlay.v[k])
          /\ \E j \in DOMAIN jbase.v[k].v \cap DOMAIN joverlay.v[k].v :
                jbase.v[k].v[j].t = "arr" /\ joverlay.v[k].v[j].t = "arr"
    /\ jres = joverlay

\* The reference unmerge of the specification, key by key.
RefRemove(base, overlay) ==
    IF IsObj(base) /\ IsObj(overlay)
    THEN LET kept == {k \in DOMAIN base.v :
                        \/ k \notin DOMAIN overlay.v
                        \/ /\ IsObj(base.v[k])
                           /\ IsObj(overlay.v[k])
                           /\ RefRemove(base.v[k], overlay.v[k]) # EmptyObj}
         IN Obj([k \in kept |->
                    IF k \in DOMAIN overlay.v
                    THEN RefRemove(base.v[k], overlay.v[k])
                    ELSE base.v[k]])
    ELSE base

\* C2: for all JSON values base and overlay, remove_json_keys removes from
\* base every key also in overlay when one of the two values at the key is
\* not an object (equal or not); when both are objects it recurses and
\* removes the key only if the nested object is empty afterwards; the keys of
\* base that are absent from overlay are untouched.
C2_RemoveIsReferenceUnmerge ==
    jop = "remove" => jres = RefRemove(jbase, joverlay)

\* An unmerge that removed a leaf whose value differs from the overlay's and
\* kept a nested object with one sibling left in it.
C2_Witness ==
    /\ jop = "remove"
    /\ IsObj(jbase) /\ IsObj(joverlay)
    /\ \E k \in DOMAIN jbase.v \cap DOMAIN joverlay.v :
          /\ IsObj(jbase.v[k]) /\ IsObj(joverlay.v[k])
          /\ \E j \in DOMAIN jbase.v[k].v \cap DOMAIN joverlay.v[k].v :
                /\ ~IsObj(jbase.v[k].v[j])
                /\ jbase.v[k].v[j] # joverlay.v[k].v[j]
                /\ k \in DOMAIN jres.v
                /\ j \notin DOMAIN jres.v[k].v
                /\ jres.v[k].v # EmptyMap

\* No key path that ends at a non-object value of b is left in r, and r holds
\* no empty nested object at a key of b.
NoLeafOf(r, b) ==
    \A k \in DOMAIN b.v :
        IF IsObj(b.v[k])
        THEN k \in DOMAIN r.v =>
                /\ IsObj(r.v[k])
                /\ r.v[k] # EmptyObj
                /\ NoLeafOf(r.v[k], b.v[k])
        ELSE k \notin DOMAIN r.v

\* What of a lies outside b: the keys of a that b lacks with a's values, and
\* under a key where both hold objects the same one level down, the key being
\* dropped when nothing is left under it.
RestOf(a, b) ==
    LET inner(k) == RestOf(a.v[k], b.v[k])
        kept == {k \in DOMAIN a.v :
                    \/ k \notin DOMAIN b.v
                    \/ /\ IsObj(a.v[k]) /\ IsObj(b.v[k])
                       /\ inner(k) # EmptyObj}
    IN Obj([k \in kept |-> IF k \in DOMAIN b.v THEN inner(k) ELSE a.v[k]])

\* C3: for all JSON objects A and B, subtract_keys(merge(A, B), B) holds no
\* leaf key of B at any depth; a nested object key of B is removed when the
\* nested object is empty after the subtraction and is otherwise retained
\* holding exactly the sibling keys that are not in B, with A's values.
C3_UnmergeAfterMergeDropsOverlay ==
    (jop = "merge_remove" /\ IsObj(jbase) /\ IsObj(joverlay)) =>
        /\ IsObj(jres)
        /\ NoLeafOf(jres, joverlay)
        /\ jres = RestOf(jbase, joverlay)

\* A merge-then-unmerge where a nested object shared by A and B keeps a
\* sibling of A's and loses the key B overwrote.
C3_Witness ==
    /\ jop = "merge_remove"
    /\ IsObj(jbase) /\ IsObj(joverlay)
    /\ \E k \in DOMAIN jbase.v \cap DOMAIN joverlay.v :
          /\ IsObj(jbase.v[k]) /\ IsObj(joverlay.v[k])
          /\ \E j \in DOMAIN jbase.v[k].v \cap DOMAIN joverlay.v[k].v :
                jbase.v[k].v[j] # joverlay.v[k].v[j]
          /\ k \in DOMAIN jres.v
          /\ jres.v[k].v # EmptyMap
          /\ jres.v[k] # jbase.v[k]

ObjScalarOnly(x) ==
    \/ x.t \in {"null", "num"}
    \/ IsObj(x) /\ \A k \in DOMAIN x.v : ObjScalarOnly(x.v[k])

\* C4: for every JSON tree A built only from objects and scalars,
\* merge(A, A) = A.
C4_MergeIdempotent ==
    (jop = "merge" /\ jbase = joverlay /\ ObjScalarOnly(jbase)) => jres = jbase

\* A tree with a scalar two objects deep merged with itself.
C4_Witness ==
    /\ jop = "merge"
    /\ jbase = joverlay
    /\ ObjScalarOnly(jbase)
    /\ IsObj(jbase)
    /\ \E k \in DOMAIN jbase.v :
          /\ IsObj(jbase.v[k])
          /\ \E j \in DOMAIN jbase.v[k].v : jbase.v[k].v[j].t = "num"
    /\ jres = jbase


(***************************************************************************)
(* The global-scope switch.  A claim about `ccm switch <name>` is stated   *)
(* on the files of every reachable state: for every profile name and every *)
(* line typed at the prompt, what switch_to_profile leaves when run on     *)
(* these files.                                                            *)
(***************************************************************************)
\* `ccm switch name` run on the files of this state.
GlobalRun(name, line, fault) == switch_to_profile(Files, name, FALSE, Cwd, line, fault)

\* The file exists and holds a JSON document.
Readable(file) == exists(file) /\ from_str_ok(read_to_string(file))

\* The document of a readable file.
DocOf(file) == from_str(read_to_string(file))

\* The file of the profile the global marker names.
ActiveFile == profiles[current[1]]

\* The active profile's stored document differs from the live settings
\* document.
Mismatch ==
    /\ exists(current)
    /\ Readable(ActiveFile)
    /\ Readable(settings)
    /\ DocOf(ActiveFile) # DocOf(settings)

\* The profile files after the live settings were written into the active one.
Absorbed == [profiles EXCEPT ![current[1]] = settings]

\* The run left everything outside the global scope alone.
ProjectUntouched(r) ==
    r.fs.local_settings = local_settings /\ r.fs.projects = projects

\* C5: a global-scope switch to a readable profile, asked for while the
\* active profile's stored document differs from the live settings document
\* and with every file operation succeeding, issues exactly one prompt and
\* ends in exactly one of Switched (the settings are the target's content,
\* the marker names the target, no profile changed), ProfileUpdated-then-
\* Switched (the active profile took the settings' content, then the same)
\* and Cancelled (no file changed); the report names the outcome that
\* happened and is never an error.
C5_MismatchEndsInOneOfThree ==
    \A name \in ProfileNames, line \in PromptLines :
        (Mismatch /\ Readable(profiles[name])) =>
            LET r == GlobalRun(name, line, "none")
                switched == /\ r.fs.settings = profiles[name]
                            /\ r.fs.current = Some(name)
                            /\ r.fs.profiles = profiles
                updated == /\ r.fs.profiles = Absorbed
                           /\ r.fs.settings = Absorbed[name]
                           /\ r.fs.current = Some(name)
                cancelled == r.fs = Files
            IN /\ r.report.ok
               /\ r.report.prompts = 1
               /\ r.report.outcome \in {"Switched", "ProfileUpdatedThenSwitched", "Cancelled"}
               /\ (r.report.outcome = "Switched") = switched
               /\ (r.report.outcome = "ProfileUpdatedThenSwitched") = updated
               /\ (r.report.outcome = "Cancelled") = cancelled

\* A switch was asked for on a mismatch and prompted once; the files still
\* mismatch, and each of the three outcomes is one answer away.
C5_Witness ==
    /\ last.op = "switch"
    /\ last.before = "differ"
    /\ last.report.prompts = 1
    /\ Mismatch
    /\ \E name \in ProfileNames :
          /\ Readable(profiles[name])
          /\ {GlobalRun(name, line, "none").report.outcome : line \in PromptLines}
                 = {"Switched", "ProfileUpdatedThenSwitched", "Cancelled"}

\* C6: on a mismatch, an answer that is Cancel makes the switch write
\* nothing (the settings file, the global marker, every profile and every
\* project file are as before, whichever later file operation would have
\* failed) and return success, reported as Cancelled.
C6_CancelWritesNothing ==
    \A name \in ProfileNames, line \in PromptLines, fault \in GlobalFaults \ {"prompt"} :
        (Mismatch /\ Readable(profiles[name]) /\ prompt_switch_action(line) = 3) =>
            LET r == GlobalRun(name, line, fault) IN
            /\ r.fs = Files
            /\ r.report.ok
            /\ r.report.outcome = "Cancelled"

\* A switch to another profile was cancelled at the prompt: the mismatch is
\* still there and the marker does not name the target.
C6_Witness ==
    /\ last.op = "switch"
    /\ last.before = "differ"
    /\ last.report.outcome = "Cancelled"
    /\ last.report.ok
    /\ Mismatch
    /\ current # Some(last.name)
    /\ Readable(profiles[last.name])


\* C7: on a mismatch, an answer that is Absorb first overwrites the active
\* profile's file with the live settings content and only then activates
\* the target.  With every file operation succeeding, at the end the
\* previously active profile holds the old settings content, the settings
\* file holds the target profile's document and the marker names the
\* target.  The order shows when a later operation fails: whenever the
\* settings file or the marker was touched the profile has been written,
\* a failing copy leaves the profile written and the settings and the marker
\* as they were, and a failing write of the profile leaves everything as it
\* was.
C7_AbsorbThenSwitch ==
    \A name \in ProfileNames, line \in PromptLines, fault \in GlobalFaults \ {"prompt"} :
        (Mismatch /\ Readable(profiles[name]) /\ prompt_switch_action(line) = 2) =>
            LET r == GlobalRun(name, line, fault) IN
            /\ ProjectUntouched(r)
            /\ fault = "none" =>
                  /\ r.report.ok
                  /\ r.fs.profiles = Absorbed
                  /\ r.fs.profiles[current[1]] = settings
                  /\ r.fs.settings = r.fs.profiles[name]
                  /\ r.fs.current = Some(name)
            /\ (r.fs.settings # settings \/ r.fs.current # current) =>
                  r.fs.profiles = Absorbed
            /\ fault = "copy" =>
                  /\ r.fs.profiles = Absorbed
                  /\ r.fs.settings = settings
                  /\ r.fs.current = current
            /\ fault = "absorb_write" => r.fs = Files

\* A switch on a mismatch was answered with Absorb: a profile other than the
\* one now active holds what the external tool had left in the settings
\* file, and the settings file holds the document of the profile the marker
\* names.
C7_Witness ==
    /\ last.op = "switch"
    /\ last.before = "differ"
    /\ last.report.outcome = "ProfileUpdatedThenSwitched"
    /\ last.report.choice = 2
    /\ current = Some(last.name)
    /\ settings = profiles[last.name]
    /\ \E n \in ProfileNames \ {last.name} : profiles[n] = Some(Text("other", DocFoo1))

\* C8: on a mismatch, an answer that is Proceed overwrites the settings file
\* with the target profile's content and sets the marker to the target; the
\* live settings are saved nowhere: every profile, the previously active one
\* included, is left as it was.
C8_ProceedOverwritesSettings ==
    \A name \in ProfileNames, line \in PromptLines :
        (Mismatch /\ Readable(profiles[name]) /\ prompt_switch_action(line) = 1) =>
            LET r == GlobalRun(name, line, "none") IN
            /\ r.report.ok
            /\ r.report.outcome = "Switched"
            /\ r.fs.settings = profiles[name]
            /\ r.fs.current = Some(name)
            /\ r.fs.profiles = profiles
            /\ r.fs.profiles[current[1]] = ActiveFile
            /\ ProjectUntouched(r)

\* A switch on a mismatch was answered with Proceed: the settings hold the
\* content of the target, which the marker names, and another profile is
\* stored.
C8_Witness ==
    /\ last.op = "switch"
    /\ last.before = "differ"
    /\ last.report.outcome = "Switched"
    /\ last.report.choice = 1
    /\ current = Some(last.name)
    /\ settings = profiles[last.name]
    /\ \E n \in ProfileNames \ {last.name} : exists(profiles[n])


\* The target profile's stored document deep-equals the live settings
\* document.
TargetEqualsSettings(name) ==
    /\ Readable(profiles[name])
    /\ Readable(settings)
    /\ DocOf(profiles[name]) = DocOf(settings)

\* C9, as the specification states it: in every state and for every
\* existing target profile whose stored document deep-equals the live
\* settings document, a global-scope switch to the target issues no prompt.
C9_TargetEqualNeverPrompts ==
    \A name \in ProfileNames, line \in PromptLines :
        TargetEqualsSettings(name) =>
            GlobalRun(name, line, "none").report.prompts = 0

\* C9, as the code has it: the check compares the live settings with the
\* ACTIVE profile's document and is not given the target.  For a target
\* whose document deep-equals the settings, the prompt is issued exactly
\* when the active profile's document differs from the settings; so there
\* is no prompt when the target is the active profile or no profile is
\* active, and there is one when another profile is active and differs.
C9_PromptFollowsActiveProfile ==
    \A name \in ProfileNames, line \in PromptLines :
        TargetEqualsSettings(name) =>
            LET r == GlobalRun(name, line, "none") IN
            /\ (r.report.prompts = 1) = Mismatch
            /\ (current = None \/ current = Some(name)) => r.report.prompts = 0

\* A switch to a profile whose document deep-equals the settings prompted,
\* the active profile being another one that differs, and was cancelled, so
\* that the files are those the switch found.
C9_Witness ==
    /\ last.op = "switch"
    /\ last.before = "differ"
    /\ last.report.prompts = 1
    /\ last.report.outcome = "Cancelled"
    /\ TargetEqualsSettings(last.name)
    /\ current # Some(last.name)
    /\ Mismatch

\* C10: when the active profile's stored document deep-equals the live
\* settings document, whatever the bytes of the two files, a global-scope
\* switch to any readable profile issues no prompt and ends Switched: the
\* settings hold the target's content, the marker names the target and no
\* profile changed.  Arrays in another order are not equal: with the
\* elements of an array swapped between the two documents the prompt is
\* issued.
C10_ActiveMatchSwitchesWithoutPrompt ==
    \A name \in ProfileNames, line \in PromptLines :
        /\ ( /\ exists(current)
             /\ Readable(ActiveFile)
             /\ Readable(settings)
             /\ DocOf(ActiveFile) = DocOf(settings)
             /\ Readable(profiles[name]) ) =>
               LET r == GlobalRun(name, line, "none") IN
               /\ r.report.prompts = 0
               /\ r.report.ok
               /\ r.report.outcome = "Switched"
               /\ r.fs.settings = profiles[name]
               /\ r.fs.current = Some(name)
               /\ r.fs.profiles = profiles
               /\ ProjectUntouched(r)
        /\ ( /\ exists(current)
             /\ Readable(ActiveFile)
             /\ Readable(settings)
             /\ {DocOf(ActiveFile), DocOf(settings)} = {DocList12, DocList21}
             /\ Readable(profiles[name]) ) =>
               GlobalRun(name, line, "none").report.prompts = 1

\* The settings file held the active profile's document in other bytes, and
\* a switch to another profile went through without a prompt.
C10_Witness ==
    /\ last.op = "switch"
    /\ last.before = "same_value"
    /\ last.report.prompts = 0
    /\ last.report.outcome = "Switched"
    /\ current = Some(last.name)
    /\ settings = profiles[last.name]
    /\ \E n \in ProfileNames \ {last.name} : Readable(profiles[n])


\* C11: when no profile is active, or the settings file does not exist, a
\* global-scope switch to a readable profile issues no prompt, copies the
\* bytes of the profile's file to the settings path as they are and sets
\* the marker to the target; no profile and no project file changes.
C11_NoActiveOrNoSettingsSwitchesDirectly ==
    \A name \in ProfileNames, line \in PromptLines :
        ((~exists(current) \/ ~exists(settings)) /\ Readable(profiles[name])) =>
            LET r == GlobalRun(name, line, "none") IN
            /\ r.report.prompts = 0
            /\ r.report.ok
            /\ r.report.outcome = "Switched"
            /\ r.fs.settings = profiles[name]
            /\ r.fs.current = Some(name)
            /\ r.fs.profiles = profiles
            /\ ProjectUntouched(r)

\* With a profile active and the settings file deleted, a switch to a
\* profile whose file the editor left in bytes of its own went through
\* without a prompt: the settings file holds those bytes.
C11_Witness ==
    /\ last.op = "switch"
    /\ last.before = "no_settings"
    /\ last.report.prompts = 0
    /\ last.report.outcome = "Switched"
    /\ current = Some(last.name)
    /\ settings = Some(Text("other", DocList21))
    /\ profiles[last.name] = settings


\* C13: at the end of a global-scope switch to a stored profile, whatever
\* the answer at the prompt and whichever file operation fails, the settings
\* file is as it was before the switch or holds exactly the target
\* profile's content.
C13_SettingsOldOrTarget ==
    \A name \in ProfileNames, line \in PromptLines, fault \in GlobalFaults :
        exists(profiles[name]) =>
            LET r == GlobalRun(name, line, fault) IN
            \/ r.fs.settings = settings
            \/ r.fs.settings = profiles[name]
            \/ r.fs.settings = r.fs.profiles[name]

\* C14: in a global-scope switch the marker is written only after the
\* target's file has been copied over the settings file.  Whatever the
\* answer and whichever operation fails: a marker that changed, or a switch
\* that returned Ok without being cancelled, comes with a settings file
\* holding the target's content; when the copy fails, before or while it
\* writes, the marker is as it was; and when only the write of the marker
\* fails, the copy has been made and the marker is as it was.
C14_MarkerAfterCopy ==
    \A name \in ProfileNames, line \in PromptLines, fault \in GlobalFaults :
        Readable(profiles[name]) =>
            LET r == GlobalRun(name, line, fault)
                reached_copy == r.report.outcome \notin {"Cancelled", "Corrupt"}
                                /\ ~(r.report.outcome = "IoFailure"
                                     /\ fault \in {"prompt", "absorb_write"})
            IN
            /\ r.fs.current \in {current, Some(name)}
            /\ r.fs.current # current => r.fs.settings = r.fs.profiles[name]
            /\ (r.report.ok /\ r.report.outcome # "Cancelled") =>
                  r.fs.current = Some(name) /\ r.fs.settings = r.fs.profiles[name]
            /\ (fault \in {"copy", "copy_partial"} /\ reached_copy) =>
                  r.fs.current = current /\ ~r.report.ok
            /\ (fault = "marker" /\ reached_copy) =>
                  /\ r.fs.current = current
                  /\ r.fs.settings = r.fs.profiles[name]
                  /\ ~r.report.ok

\* The write of the marker failed after the copy: the settings file holds
\* the target's content while the marker still names another profile, whose
\* content is different.
C14_Witness ==
    /\ last.op = "switch"
    /\ last.report.outcome = "IoFailure"
    /\ exists(current)
    /\ current # Some(last.name)
    /\ Readable(profiles[last.name])
    /\ settings = profiles[last.name]
    /\ exists(ActiveFile)
    /\ ActiveFile # settings


\* C12: a switch, in either scope, to a name that has no stored document
\* fails with a not-found error before any reconciliation step: whatever the
\* directory, the answer that would be typed and the operation that would
\* fail, no prompt is issued and every file (settings, marker, profiles,
\* project settings, project mappings) is as before.
C12_SwitchToMissingFailsFast ==
    \A name \in ProfileNames, project_mode \in BOOLEAN, cwd \in Dirs,
       line \in PlainLines, fault \in GlobalFaults \cup ProjectFaults :
        ~exists(profiles[name]) =>
            LET r == switch_to_profile(Files, name, project_mode, cwd, line, fault) IN
            /\ ~r.report.ok
            /\ r.report.outcome = "NotFound"
            /\ r.report.prompts = 0
            /\ r.fs = Files

\* A global-scope switch to a missing profile failed with the active
\* profile's document differing from the settings, so that the check would
\* have prompted, and with a project mapping and project settings in place.
C12_Witness ==
    /\ last.op = "switch"
    /\ last.report.outcome = "NotFound"
    /\ ~last.report.ok
    /\ ~exists(profiles[last.name])
    /\ Mismatch
    /\ exists(projects[hash_path(Cwd)])
    /\ exists(local_settings[Cwd])


(***************************************************************************)
(* The project scope.                                                      *)
(***************************************************************************)
\* `ccm switch -p name` run in the directory cwd on the files of this state.
ProjectRun(name, cwd, fault) == switch_to_profile(Files, name, TRUE, cwd, << >>, fault)

\* The run left everything of the global scope alone.
GlobalUntouched(r) ==
    r.fs.profiles = profiles /\ r.fs.settings = settings /\ r.fs.current = current

\* C15: a project-scope switch to a readable profile P, run in a directory D
\* whose project settings are absent or hold a JSON document, leaves in D's
\* project settings the merge of the existing document with P's (serialised
\* anew) when they exist and P's file content as it is when they do not,
\* and then records the mapping {profile: P, path: D} for D.  The mapping is
\* written after the project settings: when their write fails no file has
\* changed (their directory is made), when the write of the mapping fails the project settings are
\* written and the mapping is as it was.  The other directory's files and
\* the global scope are untouched.
C15_ProjectSwitchMergesThenMaps ==
    \A name \in ProfileNames, cwd \in Dirs, fault \in ProjectFaults :
        ( /\ Readable(profiles[name])
          /\ (exists(local_settings[cwd]) => Readable(local_settings[cwd])) ) =>
            LET r == ProjectRun(name, cwd, fault)
                expected ==
                    IF exists(local_settings[cwd])
                    THEN Some(to_string_pretty(RefMerge(DocOf(local_settings[cwd]),
                                                        DocOf(profiles[name]))))
                    ELSE profiles[name]
                written == [local_settings EXCEPT ![cwd] = expected]
                mapped == [projects EXCEPT ![hash_path(cwd)] =
                               Some([profile |-> name, path |-> cwd])]
            IN
            /\ GlobalUntouched(r)
            /\ fault = "none" =>
                  /\ r.report.ok
                  /\ r.fs.local_settings = written
                  /\ r.fs.projects = mapped
            /\ r.fs.projects # projects =>
                  r.fs.projects = mapped /\ r.fs.local_settings = written
            /\ fault = "local_write" =>
                  /\ r.fs = create_dir_all(Files, {project_claude_dir(cwd)})
                  /\ ~r.report.ok
            /\ fault = "mapping" =>
                  /\ r.fs.local_settings = written
                  /\ r.fs.projects = projects
                  /\ ~r.report.ok

\* A project switch merged the profile's array into project settings that
\* held another profile's env object, and recorded the mapping.
C15_Witness ==
    /\ last.op = "switch_project"
    /\ last.report.outcome = "Switched"
    /\ projects[hash_path(Cwd)] = Some([profile |-> last.name, path |-> Cwd])
    /\ DocOf(profiles[last.name]) = DocList21
    /\ local_settings[Cwd] = Some(to_string_pretty(RefMerge(DocFoo1, DocList21)))


(***************************************************************************)
(* The profile store.                                                      *)
(***************************************************************************)
\* The names list_profiles prints, in the order it prints them.
ListedNames(fs, cwd) ==
    LET entries == list_profiles(fs, cwd) IN
    [i \in 1..Len(entries) |-> entries[i].name]

\* The names list_profiles prints with the mark "(current)".
ListedCurrent(fs, cwd) ==
    LET entries == list_profiles(fs, cwd) IN
    {entries[i].name : i \in {j \in 1..Len(entries) : entries[j].mark = "(current)"}}

\* The profile is the global current one or the current one of the project
\* directory the command is run in.
InUse(name, cwd) ==
    \/ current = Some(name)
    \/ get_project_current_profile(Files, cwd) = Some(name)

\* C16: remove(name) of the global current profile, or of the current
\* profile of the project directory it is run in, is refused: every file is
\* as before (the profile's document still exists if it did), and the
\* command returns success, reporting that the profile is in use.
C16_RemoveInUseRefused ==
    \A name \in ProfileNames, cwd \in Dirs, fault \in RemoveFaults :
        InUse(name, cwd) =>
            LET r == remove_profile(Files, name, cwd, fault) IN
            /\ r.fs = Files
            /\ r.fs.profiles[name] = profiles[name]
            /\ r.report.ok
            /\ r.report.outcome = "InUse"

\* A removal was refused for a stored profile that is not the global current
\* one but the current one of the project directory.
C16_Witness ==
    /\ last.op = "remove"
    /\ last.report.outcome = "InUse"
    /\ last.report.ok
    /\ exists(profiles[last.name])
    /\ exists(current)
    /\ current # Some(last.name)
    /\ get_project_current_profile(Files, Cwd) = Some(last.name)

\* C17: remove(name) of a stored profile that is neither the global current
\* profile nor the current profile of the project directory deletes exactly
\* that profile's file: list() prints the names it printed before without
\* this one, and the marker, the settings, the other profiles and the
\* project files are as before.  remove(name) of a name with no stored
\* profile changes nothing.  Both return success.
C17_RemoveDeletesExactlyOne ==
    \A name \in ProfileNames, cwd \in Dirs :
        ~InUse(name, cwd) =>
            LET r == remove_profile(Files, name, cwd, "none") IN
            /\ r.report.ok
            /\ exists(profiles[name]) =>
                  /\ r.report.outcome = "Removed"
                  /\ r.fs = [Files EXCEPT !.profiles[name] = None]
                  /\ ListedNames(r.fs, cwd) =
                         SelectSeq(ListedNames(Files, cwd), LAMBDA n : n # name)
                  /\ \A i \in 1..Len(ListedNames(r.fs, cwd)) :
                         ListedNames(r.fs, cwd)[i] # name
            /\ ~exists(profiles[name]) =>
                  /\ r.report.outcome = "NotFound"
                  /\ r.fs = Files

\* A stored profile that was not in use was removed while another profile
\* is the global current one: the list holds that one, marked, and not the
\* removed one.
C17_Witness ==
    /\ last.op = "remove"
    /\ last.report.outcome = "Removed"
    /\ ~exists(profiles[last.name])
    /\ exists(current)
    /\ ListedCurrent(Files, Cwd) = {current[1]}
    /\ \A i \in 1..Len(ListedNames(Files, Cwd)) : ListedNames(Files, Cwd)[i] # last.name


\* The profile files after origin's file was renamed to new.
Renamed(origin, new) ==
    [profiles EXCEPT ![new] = profiles[origin], ![origin] = None]

\* C18: a rename(origin, new) that succeeds moves origin's file to new.  If
\* origin was the global current profile the marker names new afterwards,
\* and list(), run in any directory, prints exactly one entry marked
\* "(current)", which is new; if origin was not the global current profile
\* the marker is as before.
C18_RenameCarriesMarker ==
    \A origin \in ProfileNames, new \in ProfileNames :
        (exists(profiles[origin]) /\ ~exists(profiles[new])) =>
            LET r == rename_profile(Files, origin, new, "none") IN
            /\ r.report.ok
            /\ r.fs.profiles = Renamed(origin, new)
            /\ r.fs.settings = settings
            /\ ProjectUntouched(r)
            /\ current = Some(origin) =>
                  /\ r.fs.current = Some(new)
                  /\ \A cwd \in Dirs : ListedCurrent(r.fs, cwd) = {new}
            /\ current # Some(origin) => r.fs.current = current

\* The active profile was renamed: the marker names a stored profile that
\* is not the renamed-from name, which has no file any more, and the list
\* marks that profile alone as current.
C18_Witness ==
    /\ last.op = "rename"
    /\ last.report.outcome = "RenamedCurrent"
    /\ ~exists(profiles[last.name])
    /\ exists(current)
    /\ current # Some(last.name)
    /\ exists(ActiveFile)
    /\ ListedCurrent(Files, Cwd) = {current[1]}
    /\ Len(ListedNames(Files, Cwd)) > 1

\* C19: rename(origin, new) fails when origin has no stored profile or new
\* already has one (origin = new included); then no file is renamed or
\* overwritten: the profiles, the marker and every other file are as
\* before.
C19_RenameFailsWithoutEffect ==
    \A origin \in ProfileNames, new \in ProfileNames, fault \in RenameFaults :
        (~exists(profiles[origin]) \/ exists(profiles[new])) =>
            LET r == rename_profile(Files, origin, new, fault) IN
            /\ ~r.report.ok
            /\ r.report.outcome =
                   IF ~exists(profiles[origin]) THEN "NotFound" ELSE "AlreadyExists"
            /\ r.fs = Files

\* A rename of a stored profile failed because the new name is taken: two
\* profiles with different content are stored, one of them active.
C19_Witness ==
    /\ last.op = "rename"
    /\ last.report.outcome = "AlreadyExists"
    /\ ~last.report.ok
    /\ exists(profiles[last.name])
    /\ exists(current)
    /\ \E n \in ProfileNames \ {last.name} :
          exists(profiles[n]) /\ profiles[n] # profiles[last.name]


\* `ccm clear` run in the directory cwd on the files of this state.
ClearRun(cwd, fault) == clear_project_profile(Files, cwd, fault)

\* The profile the mapping of cwd names.
MappedFile(cwd) == profiles[projects[hash_path(cwd)][1].profile]

\* clear reads the mapped profile and the project settings, and one of them
\* is not valid JSON.
ClearParseFails(cwd) ==
    /\ exists(MappedFile(cwd))
    /\ exists(local_settings[cwd])
    /\ ~(Readable(MappedFile(cwd)) /\ Readable(local_settings[cwd]))

\* What a clear that succeeds leaves in the project settings of cwd.
ClearedSettings(cwd) ==
    IF ~exists(MappedFile(cwd)) \/ ~exists(local_settings[cwd])
    THEN local_settings[cwd]
    ELSE LET rest == RefRemove(DocOf(local_settings[cwd]), DocOf(MappedFile(cwd))) IN
         IF ~IsObj(rest) THEN local_settings[cwd]
         ELSE IF rest = EmptyObj THEN None
         ELSE Some(to_string_pretty(rest))

C21_ClearSubtractsProfileFromOverlay ==
    \A cwd \in Dirs :
        ( /\ exists(projects[hash_path(cwd)])
          /\ exists(MappedFile(cwd)) /\ Readable(MappedFile(cwd))
          /\ exists(local_settings[cwd]) /\ Readable(local_settings[cwd]) ) =>
            LET r == ClearRun(cwd, "none")
                rest == RefRemove(DocOf(local_settings[cwd]), DocOf(MappedFile(cwd)))
                left == r.fs.local_settings[cwd]
            IN
            /\ r.report.ok
            /\ GlobalUntouched(r)
            /\ r.fs.dirs = dirs
            /\ r.fs.projects = [projects EXCEPT ![hash_path(cwd)] = None]
            /\ \A d \in Dirs \ {cwd} : r.fs.local_settings[d] = local_settings[d]
            /\ ~exists(left) <=> rest = EmptyObj
            /\ exists(left) => Readable(left) /\ DocOf(left) = rest
            /\ (IsObj(rest) /\ rest # EmptyObj) => left = Some(to_string_pretty(rest))
            /\ ~IsObj(rest) => left = local_settings[cwd]

\* A clear succeeded and left project settings behind: they held more than
\* the mapped profile (the array another profile had merged in), and what
\* is left is written anew.
C21_Witness ==
    /\ last.op = "clear"
    /\ last.report.outcome = "Cleared"
    /\ ~exists(projects[hash_path(Cwd)])
    /\ local_settings[Cwd] = Some(to_string_pretty(DocList21))
    /\ \E n \in ProfileNames :
          Readable(profiles[n]) /\ DocOf(profiles[n]) = DocFoo1

\* C22: a clear run in a directory that has no mapping returns Ok(()) and
\* is a no-op, whichever file operation would fail if it were reached (none
\* is): no file is created, changed or removed (project settings, profiles,
\* marker, settings file, mappings) and no directory is made.
C22_ClearWithoutMappingIsNoOp ==
    \A cwd \in Dirs, fault \in ClearFaults :
        ~exists(projects[hash_path(cwd)]) =>
            LET r == ClearRun(cwd, fault) IN
            /\ r.report.ok
            /\ r.report.outcome = "NoMapping"
            /\ r.fs = Files

\* A clear found no mapping in a directory whose project settings exist, and
\* before the directory of the mappings was ever made: both are as they were.
C22_Witness ==
    /\ last.op = "clear"
    /\ last.report.outcome = "NoMapping"
    /\ exists(local_settings[Cwd])
    /\ ~exists(projects[hash_path(Cwd)])
    /\ "ccm/projects" \notin dirs

\* C23: a clear run in a directory whose mapping names a profile that has
\* no file removes the mapping and returns Ok(()) with a warning; the
\* project settings of the directory are left as they are, present or not,
\* valid JSON or not, and nothing else changes.  Only a failing removal of
\* the mapping makes it return an error, and then nothing has changed.
C23_ClearOfMissingProfileDropsMappingOnly ==
    \A cwd \in Dirs, fault \in ClearFaults :
        ( /\ exists(projects[hash_path(cwd)])
          /\ ~exists(MappedFile(cwd)) ) =>
            LET r == ClearRun(cwd, fault) IN
            IF fault = "unmap"
            THEN ~r.report.ok /\ r.fs = Files
            ELSE /\ r.report.ok
                 /\ r.report.outcome = "ClearedCorrupted"
                 /\ r.fs = [Files EXCEPT !.projects[hash_path(cwd)] = None]

\* A clear found a mapping to a profile that was removed: the mapping is
\* gone, the project settings written by the switch are still there, and no
\* profile file holds what they hold.
C23_Witness ==
    /\ last.op = "clear"
    /\ last.report.outcome = "ClearedCorrupted"
    /\ last.report.ok
    /\ ~exists(projects[hash_path(Cwd)])
    /\ exists(local_settings[Cwd])
    /\ \A n \in ProfileNames : ~exists(profiles[n])

(***************************************************************************)
(* import and sync.                                                        *)
(***************************************************************************)
\* `ccm sync` run on the files of this state.
SyncRun(fault) == sync_profile(Files, fault)

\* C24: sync returns an error and changes nothing when there is no marker or
\* no settings file (and likewise when the active profile has no file or
\* one of the two files is not valid JSON: every sync that fails leaves
\* every file as it was).  With a marker, a settings file and an active
\* profile that both hold JSON, a sync whose file operations succeed
\* returns Ok(()): when the two documents are deep-equal it writes nothing,
\* whatever their bytes; otherwise the active profile's file takes the
\* settings file's content, byte for byte.  After every sync that succeeds
\* the active profile's document deep-equals the settings document; no sync
\* changes the settings file, the marker, another profile, the project
\* scope or the directories.
C24_SyncCollapsesProfileToSettings ==
    \A fault \in SyncFaults :
        LET r == SyncRun(fault) IN
        /\ (~exists(current) \/ ~exists(settings)) => ~r.report.ok
        /\ ~r.report.ok => r.fs = Files
        /\ r.fs.settings = settings
        /\ r.fs.current = current
        /\ r.fs.dirs = dirs
        /\ ProjectUntouched(r)
        /\ ( /\ exists(current) /\ exists(settings) /\ exists(ActiveFile)
             /\ Readable(settings) /\ Readable(ActiveFile) ) =>
               IF DocOf(settings) = DocOf(ActiveFile)
               THEN r.report.ok /\ r.fs = Files
               ELSE /\ fault = "none" => r.report.ok
                    /\ r.report.ok => r.fs.profiles = Absorbed
        /\ r.report.ok =>
              /\ exists(current) /\ exists(settings)
              /\ Readable(r.fs.profiles[current[1]])
              /\ DocOf(r.fs.profiles[current[1]]) = DocOf(r.fs.settings)

\* A sync wrote the settings over the active profile: the profile file holds
\* the bytes the external tool left in the settings file, as they are, and
\* another profile still holds what add wrote.
C24_Witness ==
    /\ last.op = "sync"
    /\ last.report.outcome = "Synced"
    /\ last.before = "differ"
    /\ exists(current)
    /\ settings = Some(Text("other", DocFoo1))
    /\ profiles[current[1]] = settings
    /\ \E n \in ProfileNames : profiles[n] = Some(to_string_pretty(EmptyObj))

\* `ccm import <name>` run on the files of this state.
ImportRun(name, fault) == import_current_profile(Files, name, fault)

\* C25: import(name) returns an error when there is no settings file, and
\* the already-exists error when there is one and a profile file of that
\* name exists: in both cases every file is as it was, the existing profile
\* and the marker included.  Otherwise, with every file operation
\* succeeding, it returns Ok(()), the new profile file holds the settings
\* file's content byte for byte (valid JSON or not), the marker names the
\* new profile, and the other profiles, the settings file and the project
\* scope are unchanged.  The profile is copied before the marker is
\* written: a failing copy leaves both as they were, a failing write of the
\* marker leaves the new profile with the marker as it was.
C25_ImportCreatesOrFails ==
    \A name \in ProfileNames, fault \in ImportFaults :
        LET r == ImportRun(name, fault)
            copied == [profiles EXCEPT ![name] = settings]
        IN
        /\ r.fs.settings = settings
        /\ ProjectUntouched(r)
        /\ ~exists(settings) =>
              ~r.report.ok /\ r.report.outcome = "NoSettings" /\ r.fs = Files
        /\ (exists(settings) /\ exists(profiles[name])) =>
              ~r.report.ok /\ r.report.outcome = "AlreadyExists" /\ r.fs = Files
        /\ (exists(settings) /\ ~exists(profiles[name])) =>
              /\ r.report.ok = (fault = "none")
              /\ fault = "none" =>
                    r.fs.profiles = copied /\ r.fs.current = Some(name)
              /\ fault = "copy" =>
                    r.fs.profiles = profiles /\ r.fs.current = current
              /\ fault = "marker" =>
                    r.fs.profiles = copied /\ r.fs.current = current

\* An import took the settings file in under a new name while another
\* profile existed: the new profile holds the settings file's bytes and the
\* marker names it.
C25_Witness ==
    /\ last.op = "import"
    /\ last.report.outcome = "Imported"
    /\ current = Some(last.name)
    /\ settings = Some(Text("other", DocFoo1))
    /\ profiles[last.name] = settings
    /\ \E n \in ProfileNames \ {last.name} : exists(profiles[n])

\* C26: in every reachable state no stored profile holds a JSON document
\* whose top-level value is an array, a scalar or null.
C26_ProfilesAreObjects ==
    \A n \in ProfileNames :
        Readable(profiles[n]) => IsObj(DocOf(profiles[n]))

(***************************************************************************)
(* The marker and the mappings over every command.                         *)
(***************************************************************************)
\* The files every command of ccm can leave when it is run on the files of
\* this state: every name, directory, answer and failing file operation.
AfterAnyCommand ==
    {add_profile_interactive(Files, n, e).fs : n \in AddNames, e \in AddAnswers}
    \cup {edit_profile(Files, n, c).fs : n \in ProfileNames, c \in EditInputs}
    \cup {remove_profile(Files, n, d, f).fs :
              n \in ProfileNames, d \in Dirs, f \in RemoveFaults}
    \cup {rename_profile(Files, o, n, f).fs :
              o \in ProfileNames, n \in ProfileNames, f \in RenameFaults}
    \cup {switch_to_profile(Files, n, FALSE, d, l, f).fs :
              n \in ProfileNames, d \in Dirs, l \in PromptLines, f \in GlobalFaults}
    \cup {switch_to_profile(Files, n, TRUE, d, << >>, f).fs :
              n \in ProfileNames, d \in Dirs, f \in ProjectFaults}
    \cup {import_current_profile(Files, n, f).fs :
              n \in ProfileNames, f \in ImportFaults}
    \cup {sync_profile(Files, f).fs : f \in SyncFaults}
    \cup {clear_project_profile(Files, d, f).fs : d \in Dirs, f \in ClearFaults}

\* C27: no command removes the global marker: from a state in which the
\* marker exists, every command (add, edit, remove, rename, switch in either
\* scope, import, sync, clear), with every argument, answer and failing file
\* operation, leaves a marker that holds a profile name; so once set the
\* marker exists in every later state.  (The profile it names need not
\* exist.)
C27_MarkerIsNeverDeleted ==
    exists(current) =>
        \A fs \in AfterAnyCommand :
            exists(fs.current) /\ fs.current[1] \in ProfileNames

\* The one command that would orphan the marker was refused: a remove of the
\* profile the marker names, in a directory that maps nothing, left the
\* profile and the marker in place.
C27_Witness ==
    /\ last.op = "remove"
    /\ last.report.outcome = "InUse"
    /\ current = Some(last.name)
    /\ exists(profiles[last.name])
    /\ \A d \in Dirs : ~exists(projects[hash_path(d)])

(***************************************************************************)
(* The listing of the profiles directory.                                  *)
(***************************************************************************)
\* The profile names of a directory: its file names that do not begin with
\* '.' and end in .json, without that suffix.
ProfileNamesIn(entries) ==
    {SubSeq(e, 1, Len(e) - Len(JsonSuffix)) :
        e \in {x \in entries : x[1] # "." /\ ends_with(x, JsonSuffix)}}

\* The names of a listing, as a set.
Listed == {listing[1][i] : i \in 1..Len(listing[1])}

\* q is p followed by at least one more character.
ProperPrefix(p, q) == Len(p) < Len(q) /\ SubSeq(q, 1, Len(p)) = p

RecordsOf(d) ==
    {h \in Hashes : exists(projects[h]) /\ projects[h][1].path = d}

\* C29: every mapping record is stored under the hash of the directory it
\* names, so a directory has at most one record.  A project switch run in
\* directory D that succeeds leaves {profile, D} as D's record, whatever D's
\* record was before; one that fails leaves every record as it was; in both
\* cases the record of every other directory is unchanged, also when that
\* directory maps the same profile.
C29_OneMappingPerDirectory ==
    /\ \A d \in Dirs :
          /\ Cardinality(RecordsOf(d)) <= 1
          /\ RecordsOf(d) \subseteq {hash_path(d)}
    /\ \A name \in ProfileNames, cwd \in Dirs, fault \in ProjectFaults :
          LET r == ProjectRun(name, cwd, fault) IN
          /\ \A d \in Dirs \ {cwd} :
                r.fs.projects[hash_path(d)] = projects[hash_path(d)]
          /\ r.report.ok =>
                r.fs.projects[hash_path(cwd)] = Some([profile |-> name, path |-> cwd])
          /\ ~r.report.ok => r.fs.projects = projects
          /\ (Readable(profiles[name]) /\ fault = "none"
              /\ (exists(local_settings[cwd]) => Readable(local_settings[cwd]))) =>
                r.report.ok

\* A project switch has given the second directory the profile the first
\* one maps: both records exist, each under its own directory, and name the
\* same profile.
C29_Witness ==
    /\ last.op = "switch_project"
    /\ last.report.ok
    /\ projects[hash_path("/p1")] = Some([profile |-> last.name, path |-> "/p1"])
    /\ projects[hash_path("/p2")] = Some([profile |-> last.name, path |-> "/p2"])
    /\ exists(profiles[last.name])

\* The mapping of directory d names a profile that has no file.
Dangling(fs, d) ==
    /\ exists(fs.projects[hash_path(d)])
    /\ ~exists(fs.profiles[fs.projects[hash_path(d)][1].profile])

\* C30: the mappings are not kept consistent with the profile store.
\* (a) A profile that directory d maps, that is not the global current one
\*     and that the working directory does not map, is removed by a remove
\*     run in another working directory: Ok(()), the file is gone, the
\*     mappings are as they were, so d's mapping names a profile with no
\*     file.
\* (b) A profile that directory d maps is renamed to a free name, in
\*     whichever directory rename is run: Ok(()), the mappings are as they
\*     were, and d's mapping names the old name, which has no file.
\* (c) Where d's mapping names a profile with no file, clear run in d is the
\*     one command that tells: it warns, removes the mapping and returns
\*     Ok(()).  The other readers of the mapping do not look for the file:
\*     the listing in d is the one d would get with no mapping, and remove
\*     in d refuses the mapped name as in use and treats every other name as
\*     it would with no mapping.
C30_MappingsMayDangle ==
    \A d \in Dirs :
        /\ \A name \in ProfileNames, cwd \in Dirs \ {d} :
              ( /\ exists(profiles[name])
                /\ get_project_current_profile(Files, d) = Some(name)
                /\ ~InUse(name, cwd) ) =>
                  LET r == remove_profile(Files, name, cwd, "none") IN
                  /\ r.report.ok /\ r.report.outcome = "Removed"
                  /\ r.fs.projects = projects
                  /\ Dangling(r.fs, d)
        /\ \A origin \in ProfileNames, new \in ProfileNames :
              ( /\ exists(profiles[origin]) /\ ~exists(profiles[new])
                /\ get_project_current_profile(Files, d) = Some(origin) ) =>
                  LET r == rename_profile(Files, origin, new, "none") IN
                  /\ r.report.ok
                  /\ r.fs.projects = projects
                  /\ Dangling(r.fs, d)
        /\ Dangling(Files, d) =>
              /\ ClearRun(d, "none").report.outcome = "ClearedCorrupted"
              /\ ClearRun(d, "none").report.ok
              /\ ~exists(ClearRun(d, "none").fs.projects[hash_path(d)])
              /\ list_profiles(Files, d) = list_profiles(remove_project_profile(Files, d), d)
              /\ \A name \in ProfileNames, fault \in RemoveFaults :
                    LET r == remove_profile(Files, name, d, fault) IN
                    /\ r.fs.projects = projects
                    /\ IF get_project_current_profile(Files, d) = Some(name)
                       THEN r.report.outcome = "InUse" /\ r.fs = Files
                       ELSE r.report =
                                remove_profile(remove_project_profile(Files, d),
                                               name, d, fault).report

\* A remove run in one directory took away the profile the other directory
\* maps: the command succeeded and that mapping now names a profile with no
\* file.
C30_Witness ==
    /\ last.op = "remove"
    /\ last.report.outcome = "Removed"
    /\ \E d \in Dirs :
          /\ Dangling(Files, d)
          /\ get_project_current_profile(Files, d) = Some(last.name)

(***************************************************************************)
(* Failures of rename and of the switches.                                 *)
(***************************************************************************)
\* C31: a rename(origin, new) of the global current profile to a free name
\* whose write of the marker fails returns the error after fs::rename has
\* moved the file, and does not move it back: the profile is stored under
\* new, origin has no file, and the marker still names origin.  When
\* fs::rename itself fails nothing has changed.  Nothing else is written in
\* either case.
C31_RenameOfActiveIsNotAtomic ==
    \A origin \in ProfileNames, new \in ProfileNames :
        ( /\ exists(profiles[origin]) /\ ~exists(profiles[new])
          /\ current = Some(origin) ) =>
            LET marker == rename_profile(Files, origin, new, "marker")
                rename == rename_profile(Files, origin, new, "rename")
            IN
            /\ ~marker.report.ok
            /\ marker.fs = [Files EXCEPT !.profiles = Renamed(origin, new)]
            /\ marker.fs.current = Some(origin)
            /\ ~exists(marker.fs.profiles[origin])
            /\ marker.fs.profiles[new] = profiles[origin]
            /\ ~rename.report.ok
            /\ rename.fs = Files

\* A rename of the active profile failed at the marker: the marker names
\* the old name, which has no file, and the file is stored under a name the
\* marker does not hold.
C31_Witness ==
    /\ last.op = "rename"
    /\ last.report.outcome = "IoFailure"
    /\ current = Some(last.name)
    /\ ~exists(profiles[last.name])
    /\ \E n \in ProfileNames \ {last.name} : exists(profiles[n])

\* C32: a switch, in either scope, to a profile whose file exists and is
\* not valid JSON returns an error before anything else is done, whatever
\* the state of the active profile and the settings file: no prompt is
\* issued, and every file (settings, marker, project settings, mappings,
\* profiles) and every directory is as it was.
C32_SwitchToCorruptProfileFailsFirst ==
    \A name \in ProfileNames, project_mode \in BOOLEAN, cwd \in Dirs,
       line \in PromptLines, fault \in GlobalFaults \cup ProjectFaults :
        (exists(profiles[name]) /\ ~Readable(profiles[name])) =>
            LET r == switch_to_profile(Files, name, project_mode, cwd, line, fault) IN
            /\ ~r.report.ok
            /\ r.report.outcome = "Corrupt"
            /\ r.report.prompts = 0
            /\ r.fs = Files

\* A global switch to a profile that is not valid JSON failed while the
\* active profile and the settings differed: no prompt was shown, the
\* marker names another profile, and the settings are not the target's.
C32_Witness ==
    /\ last.op = "switch"
    /\ last.report.outcome = "Corrupt"
    /\ last.report.prompts = 0
    /\ last.before = "differ"
    /\ exists(profiles[last.name]) /\ ~Readable(profiles[last.name])
    /\ current # Some(last.name)
    /\ settings # profiles[last.name]


(***************************************************************************)
(* The marker and the store, when nothing fails.                           *)
(***************************************************************************)
\* C33: in every state reached by add, import, remove, rename, switch (of
\* either scope), sync and clear, each run with every file operation
\* succeeding and with no file removed from outside, the global marker, when
\* it is there, names a profile whose file is in the store.
C33_MarkerNamesStoredProfile ==
    exists(current) => exists(profiles[current[1]])

\* The marker names a profile that got its name from a rename or an import,
\* and every other profile has since been removed.
C33_Witness ==
    /\ last.op = "remove"
    /\ last.report.outcome = "Removed"
    /\ current = Some("tmp")
    /\ exists(profiles["tmp"])
    /\ \A n \in ProfileNames \ {"tmp"} : ~exists(profiles[n])


(***************************************************************************)
(* The active profile and the settings after a switch, an import, a sync.  *)
(***************************************************************************)
\* The active profile's file and the settings file hold the same bytes, or
\* hold JSON documents that are equal.
InSync(fs) ==
    /\ exists(fs.current)
    /\ exists(fs.profiles[fs.current[1]])
    /\ exists(fs.settings)
    /\ \/ fs.profiles[fs.current[1]] = fs.settings
       \/ /\ from_str_ok(read_to_string(fs.profiles[fs.current[1]]))
          /\ from_str_ok(read_to_string(fs.settings))
          /\ from_str(read_to_string(fs.profiles[fs.current[1]]))
                = from_str(read_to_string(fs.settings))

\* No global-scope switch run on these files issues the mismatch prompt.
NoPromptNext(fs) ==
    \A name \in ProfileNames, line \in PlainLines :
        switch_to_profile(fs, name, FALSE, Cwd, line, "none").report.prompts = 0

\* The command that led to this state was a global-scope switch that
\* switched, an import that imported or a sync that returned without error.
AfterSuccess ==
    \/ last.op = "switch"
       /\ last.report.outcome \in {"Switched", "ProfileUpdatedThenSwitched"}
    \/ last.op = "import" /\ last.report.outcome = "Imported"
    \/ last.op = "sync" /\ last.report.outcome \in {"InSync", "Synced"}

\* The step leaves the settings file and the file of the profile that was
\* active before it as they were, or is a switch, an import or a sync.
NotModifiedInBetween ==
    \/ last'.op \in {"switch", "import", "sync"}
    \/ /\ settings' = settings
       /\ exists(current) => profiles'[current[1]] = profiles[current[1]]

\* C34: right after a global-scope switch that switched, an import that
\* imported or a sync that returned without error, the active profile's file
\* and the settings file are equal (as bytes or as documents); in every
\* such state no global-scope switch issues the mismatch prompt; and that
\* stays so over every step that is a switch, an import or a sync (failed
\* ones included) or that leaves the settings file and the active profile's
\* file as they were.
C34_InSyncAfterSuccessUntilModified ==
    /\ [](AfterSuccess => InSync(Files))
    /\ [](InSync(Files) => NoPromptNext(Files))
    /\ [][(NotModifiedInBetween /\ NoPromptNext(Files)) => NoPromptNext(Files')]_vars

\* A sync wrote the settings, rewritten from outside, over the active
\* profile; another profile is there to switch to, and the switch to it
\* will not prompt.
C34_Witness ==
    /\ last.op = "sync"
    /\ last.report.outcome = "Synced"
    /\ last.before = "differ"
    /\ InSync(Files)
    /\ NoPromptNext(Files)
    /\ \E n \in ProfileNames \ {current[1]} : Readable(profiles[n])


(***************************************************************************)
(* The project scope and the global files.                                 *)
(***************************************************************************)
\* C35: a project-scope switch, to any name, in any directory, with any of
\* its file operations failing or none, issues no prompt and leaves the
\* settings file, the global marker and every profile file as they were.
C35_ProjectSwitchLeavesGlobalScope ==
    \A name \in ProfileNames, cwd \in Dirs, fault \in ProjectFaults :
        LET r == ProjectRun(name, cwd, fault) IN
        /\ r.report.prompts = 0
        /\ r.report.choice = 0
        /\ GlobalUntouched(r)

\* A project-scope switch went through while the active profile and the
\* settings file held different documents, and they still do: a
\* global-scope switch would have prompted.
C35_Witness ==
    /\ last.op = "switch_project"
    /\ last.report.outcome = "Switched"
    /\ last.report.prompts = 0
    /\ last.before = "differ"
    /\ Mismatch
    /\ exists(local_settings[Cwd])
    /\ current # Some(last.name)


(***************************************************************************)
(* A project switch undone by a clear.                                     *)
(***************************************************************************)
\* C36: for every profile whose file holds a JSON object and every
\* directory with no project settings and no mapping, a project-scope
\* switch to the profile followed directly by a clear in the same
\* directory, every file operation succeeding, leaves the directory with
\* no project settings and no mapping; both commands succeed, the files of
\* the global scope and of the other directory are as before, and the
\* profile's document less itself is the empty object.
C36_SwitchThenClearLeavesNoOverlay ==
    \A name \in ProfileNames, cwd \in Dirs :
        ( /\ Readable(profiles[name])
          /\ IsObj(DocOf(profiles[name]))
          /\ ~exists(local_settings[cwd])
          /\ ~exists(projects[hash_path(cwd)]) ) =>
            LET switched == ProjectRun(name, cwd, "none")
                cleared == clear_project_profile(switched.fs, cwd, "none")
            IN
            /\ switched.report.ok
            /\ switched.fs.local_settings[cwd] = profiles[name]
            /\ get_project_current_profile(switched.fs, cwd) = Some(name)
            /\ cleared.report.ok
            /\ cleared.report.outcome = "Cleared"
            /\ cleared.fs.local_settings = local_settings
            /\ cleared.fs.projects = projects
            /\ GlobalUntouched(cleared)
            /\ remove_json_keys(DocOf(profiles[name]), DocOf(profiles[name])) = EmptyObj

\* A clear has left the directory with no project settings and no mapping;
\* nothing was rewritten from outside and the one profile of the store holds
\* an object with a nested object: the project settings the clear removed
\* were that profile's, written by a project switch.
C36_Witness ==
    /\ last.op = "clear"
    /\ last.report.outcome = "Cleared"
    /\ edits = 0
    /\ ~exists(local_settings[Cwd])
    /\ ~exists(projects[hash_path(Cwd)])
    /\ project_claude_dir(Cwd) \in dirs
    /\ \E n \in ProfileNames :
          /\ Readable(profiles[n])
          /\ DocOf(profiles[n]) = DocFoo1
          /\ \A m \in ProfileNames \ {n} : ~exists(profiles[m])


(***************************************************************************)
(* Applying and reverting a profile (checked under SpecJson).              *)
(***************************************************************************)
RECURSIVE SharedPathsAreObjects(_, _)

\* At every key path present in both objects both values are objects and
\* a's is not empty.
SharedPathsAreObjects(a, b) ==
    \A k \in (DOMAIN a.v) \cap (DOMAIN b.v) :
        /\ IsObj(a.v[k])
        /\ IsObj(b.v[k])
        /\ a.v[k] # EmptyObj
        /\ SharedPathsAreObjects(a.v[k], b.v[k])

\* C37: for all JSON objects A and B such that at every key path present in
\* both, both values are objects and A's is a non-empty object,
\* remove_json_keys(merge_json(A, B), B) is A.
C37_UnmergeAfterMergeRestores ==
    ( /\ jop = "merge_remove"
      /\ IsObj(jbase) /\ IsObj(joverlay)
      /\ SharedPathsAreObjects(jbase, joverlay) ) =>
        jres = jbase

\* A and B share a key that holds a non-empty object in both, B's with a key
\* A's has not: the merge grew A's nested object and the unmerge gave A back.
C37_Witness ==
    /\ jop = "merge_remove"
    /\ IsObj(jbase) /\ IsObj(joverlay)
    /\ SharedPathsAreObjects(jbase, joverlay)
    /\ \E k \in (DOMAIN jbase.v) \cap (DOMAIN joverlay.v) :
          /\ joverlay.v[k] # EmptyObj
          /\ (DOMAIN joverlay.v[k].v) \ (DOMAIN jbase.v[k].v) # {}
    /\ jres = jbase
    /\ merge_json(jbase, joverlay) # jbase


(***************************************************************************)
(* The answers the mismatch prompt does not know.                          *)
(***************************************************************************)
\* The answers that are the one digit of a choice.
ExactChoices == { <<"1">>, <<"2">>, <<"3">> }

\* C38 as stated: on a mismatch, every line that, trimmed, is not exactly
\* "1", "2" or "3" cancels the switch: nothing is written and the switch
\* returns Ok(()).
C38_OnlyExactDigitsChoose ==
    \A name \in ProfileNames, line \in PromptLines :
        (Mismatch /\ Readable(profiles[name]) /\ trim(line) \notin ExactChoices) =>
            LET r == GlobalRun(name, line, "none") IN
            /\ r.fs = Files
            /\ r.report.ok
            /\ r.report.outcome = "Cancelled"

\* C38, amended: on a mismatch, every line that, trimmed, does not parse as
\* a u32 between 1 and 3 cancels the switch: one prompt, nothing written,
\* Ok(()).  A line that parses as 1, 2 or 3 without being the digit alone
\* (a leading '+', leading zeros) is taken as that choice: 1 and 2 go on to
\* the switch, 2 after writing the settings into the active profile.
C38_UnparsedAnswerCancels ==
    \A name \in ProfileNames, line \in PromptLines :
        (Mismatch /\ Readable(profiles[name])) =>
            LET r == GlobalRun(name, line, "none")
                n == parse_u32(trim(line))
            IN
            /\ n \notin 1..3 =>
                  /\ r.fs = Files
                  /\ r.report.ok
                  /\ r.report.outcome = "Cancelled"
                  /\ r.report.prompts = 1
            /\ (n \in 1..3 /\ trim(line) \notin ExactChoices) =>
                  /\ r.report.choice = n
                  /\ r.report.ok
                  /\ n # 3 =>
                        /\ r.report.outcome # "Cancelled"
                        /\ r.fs.current = Some(name)
                        /\ r.fs.settings = r.fs.profiles[name]
                  /\ n = 2 => r.fs.profiles = Absorbed

\* A switch to another profile ended as Cancelled with the files as they
\* were, which is what an answer that does not parse as 1, 2 or 3 gives on
\* the files of this state.
C38_Witness ==
    /\ last.op = "switch"
    /\ last.before = "differ"
    /\ last.report.outcome = "Cancelled"
    /\ Mismatch
    /\ current # Some(last.name)
    /\ \E line \in PromptLines :
          /\ parse_u32(trim(line)) \notin 1..3
          /\ GlobalRun(last.name, line, "none") = Result(Files, last.report)


(***************************************************************************)
(* The interactive mode: the selection and the popups (checked under       *)
(* SpecTui).                                                               *)
(***************************************************************************)
\* The selection is an index of the list, unless the list is empty.
SelectionInRange(a) ==
    a.profiles # << >> => a.selected_profile < Len(a.profiles)

\* C39: in every state of the interactive mode whose calls of
\* refresh_profiles have returned Ok, selected_profile is less than the
\* number of profiles when the list is not empty, and so it is after
\* select_next, after select_previous and after a refresh_profiles that
\* finds any directory and returns Ok.  On a non-empty list select_next
\* steps to the next index and from the last to the first, select_previous
\* to the one before and from the first to the last, each changes nothing
\* but the selection and each undoes the other; on an empty list both leave
\* the App as it is.
C39_SelectionStaysInRange ==
    ~tui.failed =>
        LET len == Len(app.profiles)
            sel == app.selected_profile
            next == select_next(app)
            prev == select_previous(app)
        IN
        /\ SelectionInRange(app)
        /\ SelectionInRange(next)
        /\ SelectionInRange(prev)
        /\ \A disk \in DiskInputs :
              refresh_profiles(app, disk).ok =>
                  SelectionInRange(refresh_profiles(app, disk).app)
        /\ len > 0 =>
              /\ next = [app EXCEPT !.selected_profile =
                                        IF sel = len - 1 THEN 0 ELSE sel + 1]
              /\ prev = [app EXCEPT !.selected_profile =
                                        IF sel = 0 THEN len - 1 ELSE sel - 1]
              /\ select_previous(next) = app
              /\ select_next(prev) = app
        /\ len = 0 => next = app /\ prev = app

\* The main handler has moved the selection to the last of three profiles,
\* from where select_next wraps to the first.
C39_Witness ==
    /\ ~tui.failed
    /\ tui.handler = "main"
    /\ ~exists(app.show_popup)
    /\ Len(app.profiles) = 3
    /\ app.selected_profile = 2
    /\ select_next(app).selected_profile = 0


\* The keys the main handler navigates and quits with.
MainOnlyKeys == {Key("Up", ""), Key("Down", ""), Char("k"), Char("j"), Char("q")}

\* C40: while a popup is shown a key event goes to the popup handler alone:
\* what handle_events leaves is what handle_popup_input leaves, should_quit
\* stays as it is, no other popup is opened, and the keys the main handler
\* navigates and quits with ('q', 'j', 'k', Up, Down) leave the selection
\* where it is; the selection moves only when a command of the popup has
\* refreshed the list.  In every state with no popup shown the input buffer
\* is empty and the Yes/No selection is Yes; the loop never calls both
\* handlers for one key.
C40_PopupTakesEveryKey ==
    /\ tui.handler \in {"none", "popup", "main"}
    /\ ~exists(app.show_popup) =>
          app.input_buffer = << >> /\ app.popup_selection = TRUE
    /\ (exists(app.show_popup) /\ ~tui.failed /\ ~app.should_quit) =>
          \A key \in KeyCodes, result \in CommandResults :
              \A disk \in (IF Refreshes(key, result) THEN DiskInputs
                           ELSE {UnreadableDisk}) :
                  LET r == handle_events(app, key, result, disk)
                      shown == handle_popup_input(app, key, app.show_popup[1],
                                                  result, disk)
                  IN
                  /\ r.handler = "popup"
                  /\ r.app = shown.app /\ r.ok = shown.ok
                  /\ r.app.should_quit = app.should_quit
                  /\ r.app.show_popup \in {app.show_popup, None}
                  /\ key \in MainOnlyKeys =>
                        r.app.selected_profile = app.selected_profile
                  /\ r.app.selected_profile # app.selected_profile =>
                        /\ Refreshes(key, result)
                        /\ r.app.selected_profile = Len(r.app.profiles) - 1

\* In the popup that adds a profile 'q' and 'j' were typed: they are in the
\* input buffer, the App has not quit and the selection is on the first of
\* three profiles.
C40_Witness ==
    /\ ~tui.failed
    /\ tui.handler = "popup"
    /\ app.show_popup = Some(AddProfile)
    /\ app.input_buffer = <<"q", "j">>
    /\ ~app.should_quit
    /\ Len(app.profiles) = 3
    /\ app.selected_profile = 0

=============================================================================
